---- MODULE Spec2Model ----
(***************************************************************************)
(* Order state machine and transactional financial engine of the POS       *)
(* backend: the order operations of order.service.ts, the money functions  *)
(* of calculation.service.ts and the locking coordinator of db-lock.ts.    *)
(*                                                                         *)
(* The database is the variable orders (committed rows only).  A request   *)
(* runs on a client p; the rows it writes inside its transaction live in   *)
(* tx[p] until Commit copies them to orders, or a throw / timeout drops    *)
(* them.  Optional values (null / undefined) are <<>>, a present value v   *)
(* is <<v>>.  A JavaScript number is held in halves (h stands for h/2) so  *)
(* that the rounding of toBigInt is visible.                               *)
(***************************************************************************)
EXTENDS Integers, Sequences, FiniteSets, TLC

VARIABLES products, orders, lock, pc, call, snap, tx, result, waited, calls, pin, pout

vars == <<products, orders, lock, pc, call, snap, tx, result, waited, calls, pin, pout>>

\* ------------------------------------------------------------------ bounds
MaxItems == 3
MaxCalls == 4

Procs == {"p1", "p2"}
NoProc == "none"

Null == <<>>
Some(v) == <<v>>
Val(opt) == opt[1]

\* ------------------------------------------------------------------ types
OrderStatus == {"OPEN", "CONFIRMED", "PAID", "CANCELLED"}
OrderItemStatus == {"ACTIVE", "VOIDED"}

OrderAction == [CREATE |-> "CREATE", ADD_ITEMS |-> "ADD_ITEMS", CONFIRM |-> "CONFIRM",
                VOID_ITEM |-> "VOID_ITEM", CHECKOUT |-> "CHECKOUT", CANCEL |-> "CANCEL"]

\* ------------------------------------------------------------------ inputs
ProductIds == {1, 2, 3}
TableNumbers == {5}
\* Each operation locks and writes one order and no operation reads another
\* order, so the model holds one order id.
OrderIds == {1}
ItemIds == 1 .. (MaxItems + 1)
\* void inputs [itemId, reason] and update-quantity inputs [itemId, quantity]
VoidInputs ==
  {[itemId |-> i, reason |-> "wrong order"] : i \in ItemIds}
  \cup {[itemId |-> 1, reason |-> ""]}
QuantityInputs ==
  {[itemId |-> i, quantity |-> 2] : i \in ItemIds}
  \cup {[itemId |-> 1, quantity |-> 0], [itemId |-> 1, quantity |-> 1]}
Line(productId, quantity) == [productId |-> productId, quantity |-> quantity]
\* the item lists of create / add-items requests (quantity positive, as the
\* request schema guarantees); product 3 is inactive, product 4 does not exist
LineInputs == {<<Line(2, 1)>>, <<Line(3, 1)>>,
               <<Line(1, 1), Line(2, 2)>>, <<Line(1, 1), Line(4, 1)>>}
\* checkout inputs [discountType, discountValue]; the numbers are in halves:
\* 15, -1, and 0, 49.5, 50 and 50.5
CheckoutInputs ==
  {[discountType |-> Null, discountValue |-> Null],
   [discountType |-> Null, discountValue |-> Some(30)],
   [discountType |-> Some("PERCENT"), discountValue |-> Null],
   [discountType |-> Some("PERCENT"), discountValue |-> Some(-2)]}
  \cup [discountType : {Some("PERCENT"), Some("FIXED")},
        discountValue : {Some(0), Some(99), Some(100), Some(101)}]

\* ------------------------------------------------------- state machine (pure)
STATE_TRANSITIONS ==
  [s \in OrderStatus |->
     CASE s = "OPEN" -> {"CONFIRMED", "CANCELLED"}
       [] s = "CONFIRMED" -> {"PAID", "CANCELLED"}
       [] s = "PAID" -> {}
       [] s = "CANCELLED" -> {}]

validateStateTransition(currentStatus, newStatus) ==
  IF currentStatus \in DOMAIN STATE_TRANSITIONS
    THEN newStatus \in STATE_TRANSITIONS[currentStatus]
    ELSE FALSE

\* mutant: items may be added in any status
canAddItemsAnyStatus(status) == status \in OrderStatus

canAddItems(status) == status = "OPEN" \/ status = "CONFIRMED"

\* mutant: quantities may also be edited once confirmed
canModifyItemsConfirmed(status) == status = "OPEN" \/ status = "CONFIRMED"

canModifyItems(status) == status = "OPEN"

\* mutant: items may also be voided while the order is open
canVoidItemOpen(status) == status = "OPEN" \/ status = "CONFIRMED"

canVoidItem(status) == status = "CONFIRMED"

canCheckout(status) == status = "CONFIRMED"

\* mutant: a paid order may be cancelled
canCancelPaid(status) == status # "CANCELLED"

canCancel(status) == status = "OPEN" \/ status = "CONFIRMED"

RECURSIVE MaxBatch(_)
MaxBatch(items) ==
  IF items = <<>> THEN 0
  ELSE LET rest == MaxBatch(Tail(items))
       IN IF Head(items).batchSequence > rest THEN Head(items).batchSequence ELSE rest

\* mutant: the next batch is counted from the number of items
getNextBatchSequenceByCount(items) == Len(items) + 1

getNextBatchSequence(items) ==
  IF Len(items) = 0 THEN 1 ELSE MaxBatch(items) + 1

\* ------------------------------------------------------------- money (pure)
\* BigInt division truncates toward zero
TruncDiv(a, b) ==
  IF a >= 0 THEN a \div b ELSE -((-a) \div b)

\* Math.round of the number h/2, as a BigInt
toBigInt(h) == (h + 1) \div 2

calculateItemTotal(pricePerUnit, quantity) == pricePerUnit * quantity

RECURSIVE SumActive(_)
SumActive(items) ==
  IF items = <<>> THEN 0
  ELSE (IF Head(items).status = "ACTIVE"
          THEN calculateItemTotal(Head(items).pricePerUnit, Head(items).quantity)
          ELSE 0) + SumActive(Tail(items))

\* mutant: the ACTIVE filter is missing, voided items are summed too
RECURSIVE SumAll(_)
SumAll(items) ==
  IF items = <<>> THEN 0
  ELSE calculateItemTotal(Head(items).pricePerUnit, Head(items).quantity)
       + SumAll(Tail(items))

calculateSubtotalAllItems(items) == SumAll(items)

calculateSubtotal(items) == SumActive(items)

\* mutant: a percentage is taken as an amount
calculateDiscountAsAmount(subtotal, type, value) ==
  IF type = Null \/ value = Null THEN 0 ELSE Val(value)

\* mutant: the percentage is rounded to the nearest unit
calculateDiscountRounded(subtotal, type, value) ==
  IF type = Null \/ value = Null THEN 0
  ELSE IF Val(type) = "PERCENT" THEN TruncDiv(subtotal * Val(value) + 50, 100)
  ELSE Val(value)

calculateDiscount(subtotal, type, value) ==
  IF type = Null \/ value = Null THEN 0
  ELSE IF Val(type) = "PERCENT" THEN TruncDiv(subtotal * Val(value), 100)
  ELSE Val(value)

calculateGrandTotal(subtotal, discount) ==
  LET total == subtotal - discount
  IN IF total > 0 THEN total ELSE 0

recalculateOrderTotals(items, discountType, discountValue) ==
  LET subtotal == calculateSubtotal(items)
      discount == calculateDiscount(subtotal, discountType, discountValue)
  IN [subtotal |-> subtotal, discount |-> discount,
      grandTotal |-> calculateGrandTotal(subtotal, discount)]

\* --------------------------------------------------------------- database
InitProducts ==
  [i \in ProductIds |->
     CASE i = 1 -> [name |-> "Pad Thai", price |-> 33, isActive |-> TRUE]
       [] i = 2 -> [name |-> "Tom Yum", price |-> 50, isActive |-> TRUE]
       [] i = 3 -> [name |-> "Som Tam", price |-> 40, isActive |-> FALSE]]

NoCall == [op |-> "none"]

Exists(orderId) == orderId \in 1 .. Len(orders)

\* the order row and its items, without the log rows
RowOf(o) ==
  [tableNumber |-> o.tableNumber, status |-> o.status, subtotal |-> o.subtotal,
   discountType |-> o.discountType, discountValue |-> o.discountValue,
   grandTotal |-> o.grandTotal, items |-> o.items]

\* a client inside db.$transaction
InTx(p) == pc[p] \in {"wait", "fn", "update", "log", "commit"}
\* a client inside the fn passed to withOrderLock
InBody(p) == pc[p] \in {"fn", "update", "log", "commit"} /\ call[p].op # "create"

\* mutant: the lookup does not filter on isActive
findAllProducts(productIds) == productIds \cap DOMAIN products

\* db.product.findMany({ where: { id: { in: productIds }, isActive: true } })
findActiveProducts(productIds) ==
  {i \in productIds \cap DOMAIN products : products[i].isActive}

productIdsOf(itemsInput) == {itemsInput[i].productId : i \in DOMAIN itemsInput}

\* new Map(products.map((p) => [p.id, p]))
productMapOf(itemsInput) ==
  [i \in findActiveProducts(productIdsOf(itemsInput)) |-> products[i]]

allProductsFound(itemsInput) ==
  \A i \in DOMAIN itemsInput :
    itemsInput[i].productId \in DOMAIN productMapOf(itemsInput)

\* the new item rows, with the product's name and price copied in
newOrderItems(itemsInput, productMap, existing, batch) ==
  [i \in DOMAIN itemsInput |->
     [id |-> Len(existing) + i,
      productId |-> itemsInput[i].productId,
      productName |-> productMap[itemsInput[i].productId].name,
      pricePerUnit |-> productMap[itemsInput[i].productId].price,
      quantity |-> itemsInput[i].quantity,
      batchSequence |-> batch,
      status |-> "ACTIVE",
      voidReason |-> Null]]

activeItems(items) == SelectSeq(items, LAMBDA item : item.status = "ACTIVE")

\* mutant: the check for ACTIVE items is missing
noActiveItemsNever(order) == FALSE

\* activeItems.length === 0
noActiveItems(order) == Len(activeItems(order.items)) = 0

\* mutant: an item may be voided again
alreadyVoidedNever(item) == FALSE

\* item.status === "VOIDED"
alreadyVoided(item) == item.status = "VOIDED"

findItem(items, itemId) ==
  LET hits == SelectSeq(items, LAMBDA i : i.id = itemId)
  IN IF hits = <<>> THEN Null ELSE Some(Head(hits))

\* ------------------------------------------------------------ transactions
\* the row lock of SELECT ... FOR UPDATE is granted only when no other
\* transaction holds it
\* mutant: the SELECT does not wait for the row lock (FOR UPDATE missing)
lockAlwaysAvailable(orderId) == TRUE

lockAvailable(orderId) == lock[orderId] = NoProc

\* mutant: the end of the transaction leaves its row lock in place
releaseLockNever(p) == lock

releaseLock(p) == [o \in OrderIds |-> IF lock[o] = p THEN NoProc ELSE lock[o]]

\* what stays of a request once it has been answered: the operation and the order
Finished(c) ==
  IF "orderId" \in DOMAIN c THEN [op |-> c.op, orderId |-> c.orderId] ELSE [op |-> c.op]

\* mutant: an error leaves the rows written so far in the database (the writes
\* are not inside the transaction)
ThrowKeepsWrites(p, kind) ==
  /\ pc' = [pc EXCEPT ![p] = "done"]
  /\ result' = [result EXCEPT ![p] = kind]
  /\ orders' = IF tx[p] # Null /\ call[p].op # "create"
                 THEN [orders EXCEPT ![call[p].orderId] =
                         [Val(tx[p]) EXCEPT !.logs = orders[call[p].orderId].logs \o @]]
                 ELSE orders
  /\ tx' = [tx EXCEPT ![p] = Null]
  /\ lock' = releaseLock(p)
  /\ call' = [call EXCEPT ![p] = Finished(@)]
  /\ UNCHANGED <<products, snap, waited, calls, pin, pout>>

\* an error thrown out of the transaction callback: the transaction rolls
\* back, what it wrote is dropped
Throw(p, kind) ==
  /\ pc' = [pc EXCEPT ![p] = "done"]
  /\ result' = [result EXCEPT ![p] = kind]
  /\ tx' = [tx EXCEPT ![p] = Null]
  /\ lock' = releaseLock(p)
  /\ call' = [call EXCEPT ![p] = Finished(@)]
  /\ UNCHANGED <<products, orders, snap, waited, calls, pin, pout>>

\* a write inside the transaction, visible to this transaction only
TxWrite(p, row, next) ==
  /\ tx' = [tx EXCEPT ![p] = Some(row)]
  /\ pc' = [pc EXCEPT ![p] = next]
  /\ UNCHANGED <<products, orders, lock, call, snap, result, waited, calls, pin, pout>>

\* the first write of fn, which has read the request's arguments c
TxWriteArgs(p, c, row, next) ==
  /\ tx' = [tx EXCEPT ![p] = Some(row)]
  /\ pc' = [pc EXCEPT ![p] = next]
  /\ call' = [call EXCEPT ![p] = c]
  /\ UNCHANGED <<products, orders, lock, snap, result, waited, calls, pin, pout>>

\* a client that is idle or has its last answer sends a request: the checks
\* made before the transaction, then the transaction
Begin(p, c, error, first) ==
  /\ pc[p] \in {"idle", "done"}
  /\ calls < MaxCalls
  /\ calls' = calls + 1
  /\ call' = [call EXCEPT ![p] = IF error = Null THEN c ELSE Finished(c)]
  /\ IF error = Null
       THEN /\ pc' = [pc EXCEPT ![p] = first]
            /\ result' = [result EXCEPT ![p] = "none"]
            /\ waited' = [waited EXCEPT ![p] =
                 c.op # "create" /\ Exists(c.orderId) /\ ~lockAvailable(c.orderId)]
       ELSE /\ pc' = [pc EXCEPT ![p] = "done"]
            /\ result' = [result EXCEPT ![p] = Val(error)]
            /\ waited' = [waited EXCEPT ![p] = FALSE]
  /\ snap' = [snap EXCEPT ![p] = Null]
  /\ UNCHANGED <<products, orders, lock, tx, pin, pout>>

\* ------------------------------------------------- requests (before the lock)
\* rows a request in flight is still to insert (bounds the model only)
PendingOrders == Cardinality({q \in Procs : InTx(q) /\ call[q].op = "create"})
PendingItems(orderId) ==
  LET adding == {q \in Procs : InTx(q) /\ call[q].op = "addItems"
                                /\ call[q].orderId = orderId}
      RECURSIVE Sum(_)
      Sum(S) == IF S = {} THEN 0
                ELSE LET q == CHOOSE x \in S : TRUE
                     IN Len(call[q].itemsInput) + Sum(S \ {q})
  IN Sum(adding)

createOrder(p, tableNumber, itemsInput) ==
  /\ Len(orders) + PendingOrders < Cardinality(OrderIds)
  /\ Len(itemsInput) <= MaxItems
  /\ Begin(p, [op |-> "create", tableNumber |-> tableNumber, itemsInput |-> itemsInput,
               productMap |-> productMapOf(itemsInput)],
           IF allProductsFound(itemsInput) THEN Null ELSE Some("NotFound"), "fn")

addItemsToOrder(p, orderId, itemsInput) ==
  /\ Exists(orderId) =>
       Len(orders[orderId].items) + PendingItems(orderId) + Len(itemsInput) <= MaxItems
  /\ Begin(p, [op |-> "addItems", orderId |-> orderId, itemsInput |-> itemsInput,
               productMap |-> productMapOf(itemsInput)],
           IF allProductsFound(itemsInput) THEN Null ELSE Some("NotFound"), "wait")

confirmOrder(p, orderId) ==
  Begin(p, [op |-> "confirm", orderId |-> orderId], Null, "wait")

\* The arguments that only fn reads (the item id and reason of a void, the
\* item id and quantity of a quantity update, the discount of a checkout) are
\* drawn when fn reads them: until then call[p] holds the operation and the
\* order id, and stands for every request whose checks before the lock pass.
\* mutant: the schema lets an empty reason through (min(1) missing)
voidItemSchemaAnyReason(input) == Null

\* voidItemSchema.parse in the PATCH handler of the void route, the caller of
\* voidOrderItem: the reason has at least one character
voidItemSchema(input) ==
  IF input.reason = "" THEN Some("Validation") ELSE Null

voidOrderItem(p, orderId, input) ==
  Begin(p, [op |-> "void", orderId |-> orderId], voidItemSchema(input), "wait")

\* mutant: the quantity is not checked
quantityInputErrorNever(quantity) == Null

quantityInputError(quantity) ==
  IF quantity < 1 THEN Some("Validation") ELSE Null

updateItemQuantity(p, orderId, input) ==
  Begin(p, [op |-> "updateQuantity", orderId |-> orderId],
        quantityInputError(input.quantity), "wait")

\* mutant: the percentage is capped at 100, as in the request schema
checkoutInputErrorCap100(input) ==
  IF input.discountType # Null /\ input.discountValue = Null
    THEN Some("Validation")
  ELSE IF input.discountType = Some("PERCENT") /\ input.discountValue # Null
          /\ (Val(input.discountValue) < 0 \/ Val(input.discountValue) > 200)
    THEN Some("Validation")
  ELSE Null

\* the discount checks checkoutOrder makes before it takes the lock (the input
\* number is in halves: 100 stands for 50)
checkoutInputError(input) ==
  IF input.discountType # Null /\ input.discountValue = Null
    THEN Some("Validation")
  ELSE IF input.discountType = Some("PERCENT") /\ input.discountValue # Null
          /\ (Val(input.discountValue) < 0 \/ Val(input.discountValue) > 100)
    THEN Some("Validation")
  ELSE Null

checkoutCall(orderId, input) ==
  [op |-> "checkout", orderId |-> orderId,
   discountType |-> input.discountType,
   discountValue |-> input.discountValue,
   discountValueBigInt |->
     IF input.discountValue # Null
       THEN Some(toBigInt(Val(input.discountValue))) ELSE Null]

checkoutOrder(p, orderId, input) ==
  Begin(p, [op |-> "checkout", orderId |-> orderId],
        checkoutInputError(input), "wait")

cancelOrder(p, orderId) ==
  Begin(p, [op |-> "cancel", orderId |-> orderId], Null, "wait")

\* ------------------------------------------------------------ withOrderLock
\* mutant: the items are not loaded into the snapshot
lockedOrderWithoutItems(orderId) == [RowOf(orders[orderId]) EXCEPT !.items = <<>>]

\* the order row read under the lock, with its items
lockedOrder(orderId) == RowOf(orders[orderId])

\* mutant: the check of orders.length is missing, fn is given the row that was
\* not found (no status, no items)
withOrderLockNoNotFound(p) ==
  /\ pc[p] = "wait"
  /\ LET orderId == call[p].orderId
         row == IF Exists(orderId) THEN RowOf(orders[orderId])
                ELSE [tableNumber |-> 0, status |-> "undefined", subtotal |-> 0,
                      discountType |-> Null, discountValue |-> Null,
                      grandTotal |-> 0, items |-> <<>>]
     IN /\ lockAvailable(orderId)
        /\ lock' = [lock EXCEPT ![orderId] = p]
        /\ snap' = [snap EXCEPT ![p] = Some(row)]
        /\ tx' = [tx EXCEPT ![p] = Some(row @@ [logs |-> <<>>])]
        /\ pc' = [pc EXCEPT ![p] = "fn"]
        /\ UNCHANGED <<products, orders, call, result, waited, calls, pin, pout>>

\* SELECT ... FOR UPDATE, then the items; NotFound when there is no such row
withOrderLock(p) ==
  /\ pc[p] = "wait"
  /\ LET orderId == call[p].orderId
     IN IF ~Exists(orderId)
          THEN Throw(p, "NotFound")
          ELSE /\ lockAvailable(orderId)
               /\ lock' = [lock EXCEPT ![orderId] = p]
               /\ snap' = [snap EXCEPT ![p] = Some(lockedOrder(orderId))]
               /\ tx' = [tx EXCEPT ![p] =
                           Some(RowOf(orders[orderId]) @@ [logs |-> <<>>])]
               /\ pc' = [pc EXCEPT ![p] = "fn"]
               /\ waited' = [q \in Procs |->
                    IF q # p /\ pc[q] = "wait" /\ call[q].orderId = orderId
                      THEN TRUE ELSE waited[q]]
               /\ UNCHANGED <<products, orders, call, result, calls, pin, pout>>

\* ------------------------------------------- the operations inside the lock
LogRow(action, details) == [action |-> action, details |-> details]

\* createOrder's transaction: the order row with zero totals, then its items
createOrderFn(p) ==
  /\ pc[p] = "fn" /\ call[p].op = "create"
  /\ TxWrite(p, [tableNumber |-> call[p].tableNumber, status |-> "OPEN",
                 subtotal |-> 0, discountType |-> Null, discountValue |-> Null,
                 grandTotal |-> 0,
                 items |-> newOrderItems(call[p].itemsInput, call[p].productMap, <<>>, 1),
                 logs |-> <<>>],
             "update")

addItemsToOrderFn(p) ==
  /\ pc[p] = "fn" /\ call[p].op = "addItems"
  /\ LET order == Val(snap[p])
         nextBatch == getNextBatchSequence(order.items)
     IN IF ~canAddItems(order.status)
          THEN Throw(p, "InvalidState")
          ELSE TxWrite(p, [Val(tx[p]) EXCEPT !.items =
                             @ \o newOrderItems(call[p].itemsInput, call[p].productMap,
                                                order.items, nextBatch)],
                       "update")

confirmOrderFn(p) ==
  /\ pc[p] = "fn" /\ call[p].op = "confirm"
  /\ LET order == Val(snap[p])
     IN IF ~validateStateTransition(order.status, "CONFIRMED")
          THEN Throw(p, "InvalidState")
        ELSE IF noActiveItems(order)
          THEN Throw(p, "Validation")
        ELSE TxWrite(p, [Val(tx[p]) EXCEPT !.status = "CONFIRMED"], "log")

\* mutant: the void deletes the item row
voidOrderItemFnDeleting(p, input) ==
  /\ pc[p] = "fn" /\ call[p].op = "void"
  /\ voidItemSchema(input) = Null
  /\ LET order == Val(snap[p])
         item == findItem(order.items, input.itemId)
     IN IF ~canVoidItem(order.status)
          THEN Throw(p, "InvalidState")
        ELSE IF item = Null
          THEN Throw(p, "NotFound")
        ELSE IF alreadyVoided(Val(item))
          THEN Throw(p, "InvalidState")
        ELSE TxWriteArgs(p, [op |-> "void", orderId |-> call[p].orderId,
                             itemId |-> input.itemId, reason |-> input.reason],
                         [Val(tx[p]) EXCEPT !.items =
                           SelectSeq(@, LAMBDA i : i.id # input.itemId)],
                     "update")

voidOrderItemFn(p, input) ==
  /\ pc[p] = "fn" /\ call[p].op = "void"
  /\ voidItemSchema(input) = Null
  /\ LET order == Val(snap[p])
         item == findItem(order.items, input.itemId)
     IN IF ~canVoidItem(order.status)
          THEN Throw(p, "InvalidState")
        ELSE IF item = Null
          THEN Throw(p, "NotFound")
        ELSE IF alreadyVoided(Val(item))
          THEN Throw(p, "InvalidState")
        ELSE TxWriteArgs(p, [op |-> "void", orderId |-> call[p].orderId,
                             itemId |-> input.itemId, reason |-> input.reason],
                         [Val(tx[p]) EXCEPT !.items =
                           [i \in DOMAIN @ |->
                              IF @[i].id = input.itemId
                                THEN [@[i] EXCEPT !.status = "VOIDED",
                                                  !.voidReason = Some(input.reason)]
                                ELSE @[i]]],
                     "update")

updateItemQuantityFn(p, input) ==
  /\ pc[p] = "fn" /\ call[p].op = "updateQuantity"
  /\ quantityInputError(input.quantity) = Null
  /\ LET order == Val(snap[p])
         item == findItem(order.items, input.itemId)
     IN IF ~canModifyItems(order.status)
          THEN Throw(p, "InvalidState")
        ELSE IF item = Null
          THEN Throw(p, "NotFound")
        ELSE IF alreadyVoided(Val(item))
          THEN Throw(p, "InvalidState")
        ELSE TxWriteArgs(p, [op |-> "updateQuantity", orderId |-> call[p].orderId,
                             itemId |-> input.itemId, quantity |-> input.quantity],
                         [Val(tx[p]) EXCEPT !.items =
                           [i \in DOMAIN @ |->
                              IF @[i].id = input.itemId
                                THEN [@[i] EXCEPT !.quantity = input.quantity]
                                ELSE @[i]]],
                     "update")

\* the totals checkoutOrder computes from the locked order's items
checkoutTotals(order, c) ==
  recalculateOrderTotals(order.items, c.discountType, c.discountValueBigInt)

\* mutant: the comparison with the subtotal is missing
fixedDiscountExceedsNever(discountType, discountValueBigInt, subtotal) == FALSE

fixedDiscountExceeds(discountType, discountValueBigInt, subtotal) ==
  /\ discountType = Some("FIXED")
  /\ discountValueBigInt # Null
  /\ Val(discountValueBigInt) > subtotal

checkoutOrderFn(p, input) ==
  /\ pc[p] = "fn" /\ call[p].op = "checkout"
  /\ checkoutInputError(input) = Null
  /\ LET order == Val(snap[p])
         c == checkoutCall(call[p].orderId, input)
         totals == checkoutTotals(order, c)
     IN IF ~canCheckout(order.status)
          THEN Throw(p, "InvalidState")
        ELSE IF noActiveItems(order)
          THEN Throw(p, "Validation")
        ELSE IF fixedDiscountExceeds(c.discountType, c.discountValueBigInt,
                                     totals.subtotal)
          THEN Throw(p, "Validation")
        ELSE TxWriteArgs(p, c,
                         [Val(tx[p]) EXCEPT !.status = "PAID",
                                           !.subtotal = totals.subtotal,
                                           !.discountType = c.discountType,
                                           !.discountValue = c.discountValueBigInt,
                                           !.grandTotal = totals.grandTotal],
                     "log")

\* mutant: a cancel also clears what is owed
cancelOrderFnClearingTotal(p) ==
  /\ pc[p] = "fn" /\ call[p].op = "cancel"
  /\ LET order == Val(snap[p])
     IN IF ~canCancel(order.status)
          THEN Throw(p, "InvalidState")
          ELSE TxWrite(p, [Val(tx[p]) EXCEPT !.status = "CANCELLED",
                                            !.grandTotal = 0], "log")

cancelOrderFn(p) ==
  /\ pc[p] = "fn" /\ call[p].op = "cancel"
  /\ LET order == Val(snap[p])
     IN IF ~canCancel(order.status)
          THEN Throw(p, "InvalidState")
          ELSE TxWrite(p, [Val(tx[p]) EXCEPT !.status = "CANCELLED"], "log")

\* mutant: a new order keeps the zero totals it was inserted with
totalsAfterWriteCreateZero(p) ==
  LET allItems == Val(tx[p]).items
  IN CASE call[p].op = "create" ->
            [subtotal |-> 0, discount |-> 0, grandTotal |-> 0]
       [] call[p].op = "updateQuantity" ->
            recalculateOrderTotals(
              [i \in DOMAIN allItems |->
                 [allItems[i] EXCEPT !.quantity =
                    IF allItems[i].id = call[p].itemId THEN call[p].quantity ELSE @]],
              Val(snap[p]).discountType, Val(snap[p]).discountValue)
       [] OTHER ->
            recalculateOrderTotals(allItems, Val(snap[p]).discountType,
                                   Val(snap[p]).discountValue)

\* findMany inside the transaction, recalculate, tx.order.update of the totals
\* (create, add-items, void, update-quantity)
totalsAfterWrite(p) ==
  LET allItems == Val(tx[p]).items
  IN CASE call[p].op = "create" ->
            recalculateOrderTotals(allItems, Null, Null)
       [] call[p].op = "updateQuantity" ->
            recalculateOrderTotals(
              [i \in DOMAIN allItems |->
                 [allItems[i] EXCEPT !.quantity =
                    IF allItems[i].id = call[p].itemId THEN call[p].quantity ELSE @]],
              Val(snap[p]).discountType, Val(snap[p]).discountValue)
       [] OTHER ->
            recalculateOrderTotals(allItems, Val(snap[p]).discountType,
                                   Val(snap[p]).discountValue)

updateOrderTotals(p) ==
  /\ pc[p] = "update"
  /\ LET totals == totalsAfterWrite(p)
     IN TxWrite(p, [Val(tx[p]) EXCEPT !.subtotal = totals.subtotal,
                                      !.grandTotal = totals.grandTotal],
                IF call[p].op = "updateQuantity" THEN "commit" ELSE "log")

\* tx.orderLog.create: the audit row of the operation (amounts as strings)
logDetails(p) ==
  LET order == Val(snap[p])
      row == Val(tx[p])
  IN CASE call[p].op = "create" ->
            [tableNumber |-> call[p].tableNumber,
             itemCount |-> Len(call[p].itemsInput),
             subtotal |-> ToString(row.subtotal)]
       [] call[p].op = "addItems" ->
            [batchSequence |-> getNextBatchSequence(order.items),
             itemCount |-> Len(call[p].itemsInput),
             newSubtotal |-> ToString(row.subtotal)]
       [] call[p].op = "confirm" ->
            [activeItemCount |-> Len(activeItems(order.items)),
             subtotal |-> ToString(order.subtotal)]
       [] call[p].op = "void" ->
            LET item == Val(findItem(order.items, call[p].itemId))
            IN [itemId |-> call[p].itemId,
                productName |-> item.productName,
                quantity |-> item.quantity,
                pricePerUnit |-> ToString(item.pricePerUnit),
                reason |-> call[p].reason,
                newSubtotal |-> ToString(row.subtotal)]
       [] call[p].op = "checkout" ->
            [subtotal |-> ToString(checkoutTotals(order, call[p]).subtotal),
             discountType |-> call[p].discountType,
             discountValue |-> call[p].discountValue,
             discountAmount |-> ToString(checkoutTotals(order, call[p]).discount),
             grandTotal |-> ToString(checkoutTotals(order, call[p]).grandTotal)]
       [] call[p].op = "cancel" ->
            [previousStatus |-> order.status,
             grandTotal |-> ToString(order.grandTotal)]

\* mutant: cancel logs with the tag of checkout
logActionCancelAsCheckout(op) ==
  CASE op = "create" -> OrderAction.CREATE
    [] op = "addItems" -> OrderAction.ADD_ITEMS
    [] op = "confirm" -> OrderAction.CONFIRM
    [] op = "void" -> OrderAction.VOID_ITEM
    [] op = "checkout" -> OrderAction.CHECKOUT
    [] op = "cancel" -> OrderAction.CHECKOUT

logAction(op) ==
  CASE op = "create" -> OrderAction.CREATE
    [] op = "addItems" -> OrderAction.ADD_ITEMS
    [] op = "confirm" -> OrderAction.CONFIRM
    [] op = "void" -> OrderAction.VOID_ITEM
    [] op = "checkout" -> OrderAction.CHECKOUT
    [] op = "cancel" -> OrderAction.CANCEL

createOrderLog(p) ==
  /\ pc[p] = "log"
  /\ TxWrite(p, [Val(tx[p]) EXCEPT !.logs =
                   Append(@, LogRow(logAction(call[p].op), logDetails(p)))],
             "commit")

\* mutant: the transaction's log rows replace the order's
committedOrderReplacingLogs(p, old) == Val(tx[p])

\* the rows of order orderId after transaction p commits
committedOrder(p, old) ==
  [Val(tx[p]) EXCEPT !.logs = old.logs \o @]

\* the callback returned: the transaction commits and the lock is released
Commit(p) ==
  /\ pc[p] = "commit"
  /\ orders' = IF call[p].op = "create"
                 THEN Append(orders, Val(tx[p]))
                 ELSE [orders EXCEPT ![call[p].orderId] = committedOrder(p, @)]
  /\ lock' = releaseLock(p)
  /\ tx' = [tx EXCEPT ![p] = Null]
  /\ pc' = [pc EXCEPT ![p] = "done"]
  /\ result' = [result EXCEPT ![p] = "Ok"]
  /\ call' = [call EXCEPT ![p] = Finished(@)]
  /\ UNCHANGED <<products, snap, waited, calls, pin, pout>>

\* the transaction's timeout (or the database aborting it): the transaction is
\* rolled back wherever it stands and the caller gets a retryable failure
Timeout(p) ==
  /\ InTx(p)
  /\ Throw(p, "Timeout")

\* ------------------------------------------------------------ specification
Init ==
  /\ products = InitProducts
  /\ orders = <<>>
  /\ lock = [o \in OrderIds |-> NoProc]
  /\ pc = [p \in Procs |-> "idle"]
  /\ call = [p \in Procs |-> NoCall]
  /\ snap = [p \in Procs |-> Null]
  /\ tx = [p \in Procs |-> Null]
  /\ result = [p \in Procs |-> "none"]
  /\ waited = [p \in Procs |-> FALSE]
  /\ calls = 0
  /\ pin = Null
  /\ pout = Null

Request(p) ==
  \/ \E t \in TableNumbers, l \in LineInputs : createOrder(p, t, l)
  \/ \E o \in OrderIds, l \in LineInputs : addItemsToOrder(p, o, l)
  \/ \E o \in OrderIds : confirmOrder(p, o)
  \/ \E o \in OrderIds, i \in VoidInputs : voidOrderItem(p, o, i)
  \/ \E o \in OrderIds, q \in QuantityInputs : updateItemQuantity(p, o, q)
  \/ \E o \in OrderIds, d \in CheckoutInputs : checkoutOrder(p, o, d)
  \/ \E o \in OrderIds : cancelOrder(p, o)

Step(p) ==
  \/ Request(p)
  \/ withOrderLock(p)
  \/ createOrderFn(p)
  \/ addItemsToOrderFn(p)
  \/ confirmOrderFn(p)
  \/ \E i \in VoidInputs : voidOrderItemFn(p, i)
  \/ \E q \in QuantityInputs : updateItemQuantityFn(p, q)
  \/ \E d \in CheckoutInputs : checkoutOrderFn(p, d)
  \/ cancelOrderFn(p)
  \/ updateOrderTotals(p)
  \/ createOrderLog(p)
  \/ Commit(p)

Next == \E p \in Procs : Step(p)

Spec == Init /\ [][Next]_vars

NextTimeout == Next \/ \E p \in Procs : Timeout(p)

SpecTimeout == Init /\ [][NextTimeout]_vars

\* Scheduling: each request runs on its own task, and a task inside
\* db.$transaction is resumed whenever what it awaits is ready (a query's
\* answer, the row lock); the transaction's timeout ends it at the latest.
\* So a client inside a transaction eventually takes a step of it or is
\* timed out.
TxStep(p) ==
  /\ InTx(p)
  /\ \/ Timeout(p)
     \/ withOrderLock(p)
     \/ createOrderFn(p)
     \/ addItemsToOrderFn(p)
     \/ confirmOrderFn(p)
     \/ \E i \in VoidInputs : voidOrderItemFn(p, i)
     \/ \E q \in QuantityInputs : updateItemQuantityFn(p, q)
     \/ \E d \in CheckoutInputs : checkoutOrderFn(p, d)
     \/ cancelOrderFn(p)
     \/ updateOrderTotals(p)
     \/ createOrderLog(p)
     \/ Commit(p)

Fairness == \A p \in Procs : WF_vars(TxStep(p))

SpecFair == Init /\ [][NextTimeout]_vars /\ Fairness

\* ------------------------------------------------------- the product service
\* updateProduct inputs [name, price, isActive], a field absent when Null;
\* product 4 does not exist
UpdateProductInputs ==
  {[name |-> Some("Tom Yum Goong"), price |-> Some(55), isActive |-> Null],
   [name |-> Null, price |-> Null, isActive |-> Some(FALSE)]}

updatedProduct(existing, input) ==
  [name |-> IF input.name # Null THEN Val(input.name) ELSE existing.name,
   price |-> IF input.price # Null THEN Val(input.price) ELSE existing.price,
   isActive |-> IF input.isActive # Null THEN Val(input.isActive) ELSE existing.isActive]

\* mutant: the product's name and price are also written to the order items
\* that refer to it
updateProductCascading(id, input) ==
  /\ calls < MaxCalls
  /\ calls' = calls + 1
  /\ IF id \notin DOMAIN products
       THEN UNCHANGED <<products, orders>>
       ELSE /\ products' = [products EXCEPT ![id] = updatedProduct(@, input)]
            /\ orders' = [o \in DOMAIN orders |->
                 [orders[o] EXCEPT !.items =
                    [i \in DOMAIN @ |->
                       IF @[i].productId = id
                         THEN [@[i] EXCEPT !.productName = products'[id].name,
                                           !.pricePerUnit = products'[id].price]
                         ELSE @[i]]]]
  /\ UNCHANGED <<lock, pc, call, snap, tx, result, waited, pin, pout>>

\* getProductById, NotFound when there is none, then db.product.update
updateProduct(id, input) ==
  /\ calls < MaxCalls
  /\ calls' = calls + 1
  /\ IF id \notin DOMAIN products
       THEN UNCHANGED products
       ELSE products' = [products EXCEPT ![id] = updatedProduct(@, input)]
  /\ UNCHANGED <<orders, lock, pc, call, snap, tx, result, waited, pin, pout>>

\* soft delete: isActive false
deleteProduct(id) ==
  /\ calls < MaxCalls
  /\ calls' = calls + 1
  /\ IF id \notin DOMAIN products
       THEN UNCHANGED products
       ELSE products' = [products EXCEPT ![id].isActive = FALSE]
  /\ UNCHANGED <<orders, lock, pc, call, snap, tx, result, waited, pin, pout>>

NextProducts ==
  \/ Next
  \/ \E input \in UpdateProductInputs : updateProduct(2, input)
  \/ \E id \in {1, 4} : deleteProduct(id)

SpecProducts == Init /\ [][NextProducts]_vars

\* ------------------------------------------------------------- tryOrderLock
\* tryOrderLock has no caller in the services; it is called here with the fn
\* of confirmOrder or of cancelOrder.
TryFns == {"confirm", "cancel"}

\* The code of the PrismaClientKnownRequestError that $queryRaw rejects with
\* when FOR UPDATE NOWAIT finds the row locked is set by the database client:
\* P2034 (transaction failed: write conflict or deadlock) is the code the catch
\* of tryOrderLock looks for, P2010 is the client's code for a raw query that
\* the database refused.
LockNotAvailableCodes == {"P2034", "P2010"}

\* a call tryOrderLock(orderId, fn) enters db.$transaction
tryOrderLockCall(p, orderId, fn) ==
  Begin(p, [op |-> fn, orderId |-> orderId], Null, "trywait")

\* the catch of tryOrderLock: null for P2034, any other error is thrown on
tryOrderLockCatch(p, code) ==
  /\ pc' = [pc EXCEPT ![p] = "done"]
  /\ result' = [result EXCEPT ![p] = IF code = "P2034" THEN "null" ELSE code]
  /\ tx' = [tx EXCEPT ![p] = Null]
  /\ lock' = releaseLock(p)
  /\ call' = [call EXCEPT ![p] = Finished(@)]
  /\ waited' = [waited EXCEPT ![p] = FALSE]
  /\ UNCHANGED <<products, orders, snap, calls, pin, pout>>

\* SELECT ... FOR UPDATE NOWAIT, then the items and fn
tryOrderLock(p, code) ==
  /\ pc[p] = "trywait"
  /\ LET orderId == call[p].orderId
     IN IF ~Exists(orderId)
          THEN Throw(p, "NotFound")
        ELSE IF ~lockAvailable(orderId)
          THEN tryOrderLockCatch(p, code)
        ELSE /\ lock' = [lock EXCEPT ![orderId] = p]
             /\ snap' = [snap EXCEPT ![p] = Some(lockedOrder(orderId))]
             /\ tx' = [tx EXCEPT ![p] =
                         Some(RowOf(orders[orderId]) @@ [logs |-> <<>>])]
             /\ pc' = [pc EXCEPT ![p] = "fn"]
             /\ waited' = [q \in Procs |->
                  IF q # p /\ pc[q] = "wait" /\ call[q].orderId = orderId
                    THEN TRUE ELSE waited[q]]
             /\ UNCHANGED <<products, orders, call, result, calls, pin, pout>>

NextTry ==
  \/ Next
  \/ \E p \in Procs, o \in OrderIds, fn \in TryFns : tryOrderLockCall(p, o, fn)
  \/ \E p \in Procs, code \in LockNotAvailableCodes : tryOrderLock(p, code)

SpecTry == Init /\ [][NextTry]_vars

\* ---------------------------------------------------- withMultipleOrderLock
\* withMultipleOrderLock has no caller in the services; it is called here by
\* three clients on three orders that exist (order 4 does not), and fn only
\* reads.
MultiProcs == {"p1", "p2", "p3"}
MultiOrderIds == {1, 2, 3}
MultiInputs ==
  {<<>>, <<2>>, <<1, 4>>, <<1, 2, 3>>, <<3, 2, 1>>}
  \cup {<<a, b>> : a, b \in MultiOrderIds}

\* an order as createOrder leaves it: one line of product 2
createdOrder(tableNumber) ==
  [tableNumber |-> tableNumber, status |-> "OPEN", subtotal |-> 50,
   discountType |-> Null, discountValue |-> Null, grandTotal |-> 50,
   items |-> newOrderItems(<<Line(2, 1)>>, InitProducts, <<>>, 1),
   logs |-> <<LogRow(OrderAction.CREATE,
                     [tableNumber |-> tableNumber, itemCount |-> 1,
                      subtotal |-> "50"])>>]

RECURSIVE AscendingSeq(_)
AscendingSeq(S) ==
  IF S = {} THEN <<>>
  ELSE LET m == CHOOSE x \in S : \A y \in S : x <= y
       IN <<m>> \o AscendingSeq(S \ {m})

\* [...orderIds].sort()
sortedIds(orderIds) == SortSeq(orderIds, <)

\* mutant: ORDER BY id is missing, the rows are locked in the order of the
\* argument
lockedRowsAsGiven(orderIds) ==
  LET first == {i \in DOMAIN orderIds :
                  /\ Exists(orderIds[i])
                  /\ \A j \in 1 .. (i - 1) : orderIds[j] # orderIds[i]}
      at == AscendingSeq(first)
  IN [k \in DOMAIN at |-> orderIds[at[k]]]

\* the rows of WHERE id IN (sortedIds) ORDER BY id FOR UPDATE, in the order in
\* which the statement locks them
lockedRows(orderIds) ==
  AscendingSeq({sortedIds(orderIds)[i] : i \in DOMAIN orderIds} \cap DOMAIN orders)

heldBy(p) == {o \in DOMAIN lock : lock[o] = p}

\* the rows the SELECT of p has still to lock
rowsToLock(p) ==
  SelectSeq(lockedRows(call[p].orderIds), LAMBDA o : lock[o] # p)

releaseLocks(p) == [o \in DOMAIN lock |-> IF lock[o] = p THEN NoProc ELSE lock[o]]

withMultipleOrderLockCall(p, orderIds) ==
  /\ pc[p] \in {"idle", "done"}
  /\ calls < MaxCalls
  /\ calls' = calls + 1
  /\ IF Len(orderIds) = 0
       THEN /\ pc' = [pc EXCEPT ![p] = "done"]
            /\ result' = [result EXCEPT ![p] = "Error"]
            /\ call' = [call EXCEPT ![p] = [op |-> "multi"]]
       ELSE /\ pc' = [pc EXCEPT ![p] = "mlock"]
            /\ result' = [result EXCEPT ![p] = "none"]
            /\ call' = [call EXCEPT ![p] = [op |-> "multi", orderIds |-> orderIds]]
  /\ snap' = [snap EXCEPT ![p] = Null]
  /\ UNCHANGED <<products, orders, lock, tx, waited, pin, pout>>

\* the SELECT ... FOR UPDATE locks its next row, once no other transaction
\* holds it
lockNextRow(p) ==
  /\ pc[p] = "mlock"
  /\ rowsToLock(p) # <<>>
  /\ lock[Head(rowsToLock(p))] = NoProc
  /\ lock' = [lock EXCEPT ![Head(rowsToLock(p))] = p]
  /\ UNCHANGED <<products, orders, pc, call, snap, tx, result, waited, calls, pin, pout>>

\* sortedIds.find((id) => !foundIds.has(id)): the first id of the sorted list
\* that has no row, undefined (Null) when every id has one
missingId(orderIds) ==
  LET ids == sortedIds(orderIds)
      missing == {i \in DOMAIN ids : ~Exists(ids[i])}
  IN IF missing = {} THEN Null
     ELSE Some(ids[CHOOSE i \in missing : \A j \in missing : i <= j])

\* the SELECT returned: NotFound when it has fewer rows than the list has ids,
\* else the items are read and fn is called with the locked orders
withMultipleOrderLock(p) ==
  /\ pc[p] = "mlock"
  /\ rowsToLock(p) = <<>>
  /\ LET rows == lockedRows(call[p].orderIds)
     IN IF Len(rows) # Len(sortedIds(call[p].orderIds))
          THEN /\ pc' = [pc EXCEPT ![p] = "done"]
               /\ result' = [result EXCEPT ![p] = "NotFound"]
               /\ lock' = releaseLocks(p)
               /\ call' = [call EXCEPT ![p] =
                            [op |-> "multi", missingId |-> missingId(call[p].orderIds)]]
               /\ UNCHANGED snap
          ELSE /\ pc' = [pc EXCEPT ![p] = "fn"]
               /\ snap' = [snap EXCEPT ![p] =
                            Some([k \in DOMAIN rows |-> RowOf(orders[rows[k]])])]
               /\ UNCHANGED <<lock, call, result>>
  /\ UNCHANGED <<products, orders, tx, waited, calls, pin, pout>>

\* fn returned: the transaction commits and its row locks are released
multiFnReturns(p) ==
  /\ pc[p] = "fn" /\ call[p].op = "multi"
  /\ pc' = [pc EXCEPT ![p] = "done"]
  /\ result' = [result EXCEPT ![p] = "Ok"]
  /\ lock' = releaseLocks(p)
  /\ call' = [call EXCEPT ![p] = [op |-> "multi"]]
  /\ UNCHANGED <<products, orders, snap, tx, waited, calls, pin, pout>>

InitMulti ==
  /\ products = InitProducts
  /\ orders = [o \in MultiOrderIds |-> createdOrder(5)]
  /\ lock = [o \in MultiOrderIds |-> NoProc]
  /\ pc = [p \in MultiProcs |-> "idle"]
  /\ call = [p \in MultiProcs |-> NoCall]
  /\ snap = [p \in MultiProcs |-> Null]
  /\ tx = [p \in MultiProcs |-> Null]
  /\ result = [p \in MultiProcs |-> "none"]
  /\ waited = [p \in MultiProcs |-> FALSE]
  /\ calls = 0
  /\ pin = Null
  /\ pout = Null

NextMulti ==
  \E p \in MultiProcs :
    \/ \E orderIds \in MultiInputs : withMultipleOrderLockCall(p, orderIds)
    \/ lockNextRow(p)
    \/ withMultipleOrderLock(p)
    \/ multiFnReturns(p)

SpecMulti == InitMulti /\ [][NextMulti]_vars

\* --------------------------------------------- the pure functions, on their own
\* the arguments the status predicates and the money functions are applied to
PureInputs ==
  [s : OrderStatus, t : OrderStatus, subtotal : {0, 33, 9999},
   type : {Null, Some("PERCENT"), Some("FIXED")},
   value : {Null, Some(0), Some(15), Some(50), Some(10000)}]

InitPure ==
  /\ products = InitProducts
  /\ orders = <<>>
  /\ lock = [o \in OrderIds |-> NoProc]
  /\ pc = [p \in Procs |-> "idle"]
  /\ call = [p \in Procs |-> NoCall]
  /\ snap = [p \in Procs |-> Null]
  /\ tx = [p \in Procs |-> Null]
  /\ result = [p \in Procs |-> "none"]
  /\ waited = [p \in Procs |-> FALSE]
  /\ calls = 0
  /\ pin \in {Some(i) : i \in PureInputs}
  /\ pout = Null

ApplyPure ==
  /\ pin # Null /\ pout = Null
  /\ LET i == Val(pin)
         discount == calculateDiscount(i.subtotal, i.type, i.value)
     IN pout' = Some([canAddItems |-> canAddItems(i.s),
                      canModifyItems |-> canModifyItems(i.s),
                      canVoidItem |-> canVoidItem(i.s),
                      canCheckout |-> canCheckout(i.s),
                      canCancel |-> canCancel(i.s),
                      validateStateTransition |-> validateStateTransition(i.s, i.t),
                      discount |-> discount,
                      grandTotal |-> calculateGrandTotal(i.subtotal, discount)])
  /\ UNCHANGED <<products, orders, lock, pc, call, snap, tx, result, waited, calls, pin>>

SpecPure == InitPure /\ [][ApplyPure]_vars

\* ===================================================================== claims
\* what the specification says of the statuses, written from its tables
AllowedStatusChanges ==
  {<<"OPEN", "CONFIRMED">>, <<"OPEN", "CANCELLED">>,
   <<"CONFIRMED", "PAID">>, <<"CONFIRMED", "CANCELLED">>}

StatusRank(status) ==
  CASE status = "OPEN" -> 0 [] status = "CONFIRMED" -> 1 [] OTHER -> 2

Terminal(status) == status \in {"PAID", "CANCELLED"}

LockedOps == {"addItems", "updateQuantity", "void", "confirm", "checkout", "cancel"}

\* the ticks of the operation/status table
Ticked(op, status) ==
  CASE op = "addItems" -> status \in {"OPEN", "CONFIRMED"}
    [] op = "updateQuantity" -> status = "OPEN"
    [] op = "void" -> status = "CONFIRMED"
    [] op = "confirm" -> status = "OPEN"
    [] op = "checkout" -> status = "CONFIRMED"
    [] op = "cancel" -> status \in {"OPEN", "CONFIRMED"}

RECURSIVE ActiveTotal(_)
ActiveTotal(items) ==
  IF items = <<>> THEN 0
  ELSE (IF Head(items).status = "ACTIVE"
          THEN Head(items).pricePerUnit * Head(items).quantity ELSE 0)
       + ActiveTotal(Tail(items))

RowsOf(order, action) ==
  {l \in DOMAIN order.logs : order.logs[l].action = action}

\* ------------------------------------------------------------------------ C1
\* p and q have both been answered a checkout of the same order, which p locked
\* CONFIRMED with an ACTIVE item and q locked CONFIRMED or PAID
CheckoutPair(p, q) ==
  /\ p # q
  /\ pc[p] = "done" /\ pc[q] = "done"
  /\ call[p].op = "checkout" /\ call[q].op = "checkout"
  /\ call[p].orderId = call[q].orderId
  /\ snap[p] # Null /\ snap[q] # Null
  /\ Val(snap[p]).status = "CONFIRMED"
  /\ \E i \in DOMAIN Val(snap[p]).items : Val(snap[p]).items[i].status = "ACTIVE"
  /\ Val(snap[q]).status \in {"CONFIRMED", "PAID"}

ExactlyOnePaid(p, q) ==
  /\ {result[p], result[q]} = {"Ok", "InvalidState"}
  /\ orders[call[p].orderId].status = "PAID"
  /\ Cardinality(RowsOf(orders[call[p].orderId], OrderAction.CHECKOUT)) = 1

\* C1 as written: of two concurrent checkouts of one CONFIRMED order with an
\* ACTIVE item, exactly one succeeds and leaves the order PAID, the other fails
\* with InvalidState, and one CHECKOUT row is written (read of the calls the
\* database does not abort)
C1_AsWritten ==
  \A p, q \in Procs :
    (/\ CheckoutPair(p, q)
     /\ waited[p] \/ waited[q]
     /\ result[p] # "Timeout" /\ result[q] # "Timeout")
    => ExactlyOnePaid(p, q)

\* C1: of two checkouts of one CONFIRMED order with an ACTIVE item, neither
\* rejected for its discount (Validation) nor aborted by the database, exactly
\* one succeeds and leaves the order PAID, the other fails with InvalidState,
\* and exactly one CHECKOUT row is written; no order ever has two CHECKOUT rows
C1_OneCheckout ==
  /\ \A p, q \in Procs :
       (/\ CheckoutPair(p, q)
        /\ {result[p], result[q]} \cap {"Validation", "Timeout"} = {})
       => ExactlyOnePaid(p, q)
  /\ \A o \in DOMAIN orders :
       Cardinality(RowsOf(orders[o], OrderAction.CHECKOUT)) <= 1

\* two checkouts, one of which waited for the other's lock: one paid, the one
\* that waited found the order PAID
C1_Witness ==
  \E p, q \in Procs :
    /\ CheckoutPair(p, q)
    /\ waited[q]
    /\ Val(snap[q]).status = "PAID"
    /\ result[p] = "Ok" /\ result[q] = "InvalidState"

\* ------------------------------------------------------------------------ C2
C2_StatusStep ==
  /\ \A o \in DOMAIN orders :
       /\ o \in DOMAIN orders'
       /\ orders'[o].status # orders[o].status =>
            /\ <<orders[o].status, orders'[o].status>> \in AllowedStatusChanges
            /\ StatusRank(orders'[o].status) > StatusRank(orders[o].status)
  /\ \A o \in DOMAIN orders' \ DOMAIN orders : orders'[o].status = "OPEN"

\* C2: every change of a committed order's status is one of OPEN->CONFIRMED,
\* OPEN->CANCELLED, CONFIRMED->PAID, CONFIRMED->CANCELLED; an order appears
\* with status OPEN; a change always moves forward, so no status comes back
C2_Transitions == [][C2_StatusStep]_vars

\* an order that went OPEN -> CONFIRMED -> PAID
C2_Witness ==
  \E o \in DOMAIN orders :
    /\ orders[o].status = "PAID"
    /\ RowsOf(orders[o], OrderAction.CONFIRM) # {}
    /\ RowsOf(orders[o], OrderAction.CHECKOUT) # {}

\* ------------------------------------------------------------------------ C3
C3_TerminalStep ==
  \A o \in DOMAIN orders :
    Terminal(orders[o].status) =>
      /\ RowOf(orders'[o]) = RowOf(orders[o])
      /\ orders'[o].logs = orders[o].logs

\* C3: once an order is PAID or CANCELLED no step changes its status, items,
\* subtotal, discount fields or grandTotal (or its audit rows)
C3_TerminalFrozen == [][C3_TerminalStep]_vars

\* an operation ran on a PAID or CANCELLED order and was refused
C3_Witness ==
  \E p \in Procs :
    /\ pc[p] = "done" /\ result[p] = "InvalidState"
    /\ call[p].op \in LockedOps
    /\ snap[p] # Null /\ Terminal(Val(snap[p]).status)
    /\ RowOf(orders[call[p].orderId]) = Val(snap[p])

\* ------------------------------------------------------------------------ C4
\* C4: in every committed state the stored subtotal of an order is the sum of
\* pricePerUnit * quantity over its ACTIVE items
C4_Subtotal ==
  \A o \in DOMAIN orders : orders[o].subtotal = ActiveTotal(orders[o].items)

\* an order with a VOIDED and an ACTIVE item
C4_Witness ==
  \E o \in DOMAIN orders :
    /\ \E i \in DOMAIN orders[o].items : orders[o].items[i].status = "VOIDED"
    /\ \E i \in DOMAIN orders[o].items : orders[o].items[i].status = "ACTIVE"
    /\ orders[o].subtotal > 0

\* ------------------------------------------------------------------------ C5
ExpectedDiscount(order) ==
  IF order.discountType = Null \/ order.discountValue = Null THEN 0
  ELSE IF order.discountType = Some("PERCENT")
    THEN (order.subtotal * Val(order.discountValue)) \div 100
  ELSE Val(order.discountValue)

\* C5: in every committed state grandTotal = max(0, subtotal - discount), the
\* discount computed from the stored subtotal, discountType and discountValue,
\* and grandTotal is not negative
C5_GrandTotal ==
  \A o \in DOMAIN orders :
    LET owed == orders[o].subtotal - ExpectedDiscount(orders[o])
    IN /\ orders[o].grandTotal >= 0
       /\ orders[o].grandTotal = IF owed > 0 THEN owed ELSE 0

\* a PAID order with a percentage discount that took something off
C5_Witness ==
  \E o \in DOMAIN orders :
    /\ orders[o].status = "PAID"
    /\ orders[o].discountType = Some("PERCENT")
    /\ orders[o].grandTotal < orders[o].subtotal

\* ------------------------------------------------------------------------ C6
\* p's call is answered in this step, with an error
FailsNow(p) ==
  /\ pc[p] # "done" /\ pc'[p] = "done"
  /\ result'[p] # "Ok"

\* the committed rows change only by one whole transaction committing
WholeCommit(p) ==
  /\ pc[p] = "commit" /\ result'[p] = "Ok"
  /\ IF call[p].op = "create"
       THEN orders' = Append(orders, Val(tx[p]))
       ELSE orders' = [orders EXCEPT ![call[p].orderId] =
                         [Val(tx[p]) EXCEPT !.logs = orders[call[p].orderId].logs \o @]]

C6_RollbackStep ==
  /\ \A p \in Procs :
       FailsNow(p) => orders' = orders /\ \A o \in OrderIds : lock'[o] # p
  /\ orders' # orders => \E p \in Procs : WholeCommit(p)

\* no committed state shows half an operation: the subtotal matches the items,
\* a VOIDED item has its VOID_ITEM row and a later batch its ADD_ITEMS row, and
\* each such row has its item or batch
C6_NoPartialState ==
  \A o \in DOMAIN orders :
    LET order == orders[o]
    IN /\ order.subtotal = ActiveTotal(order.items)
       /\ \A i \in DOMAIN order.items :
            order.items[i].status = "VOIDED" =>
              \E l \in RowsOf(order, OrderAction.VOID_ITEM) :
                order.logs[l].details.itemId = order.items[i].id
       /\ \A l \in RowsOf(order, OrderAction.VOID_ITEM) :
            \E i \in DOMAIN order.items :
              /\ order.items[i].id = order.logs[l].details.itemId
              /\ order.items[i].status = "VOIDED"
       /\ \A i \in DOMAIN order.items :
            order.items[i].batchSequence > 1 =>
              \E l \in RowsOf(order, OrderAction.ADD_ITEMS) :
                order.logs[l].details.batchSequence = order.items[i].batchSequence
       /\ \A l \in RowsOf(order, OrderAction.ADD_ITEMS) :
            \E i \in DOMAIN order.items :
              order.items[i].batchSequence = order.logs[l].details.batchSequence

C7_OneBody ==
  \A o \in OrderIds :
    Cardinality({p \in Procs : InBody(p) /\ call[p].orderId = o}) <= 1

\* one client is inside fn while another waits for the same order's lock
C7_Witness ==
  \E p, q \in Procs :
    /\ p # q
    /\ InBody(p) /\ pc[p] = "update"
    /\ pc[q] = "wait" /\ waited[q]
    /\ call[q].orderId = call[p].orderId

\* ------------------------------------------------------------------------ C8
\* C8: while a client is inside fn, the snapshot it was passed equals the
\* committed order (row and items), and it holds the order's lock: the snapshot
\* is the committed state at lock acquisition and nobody changed it since
C8_Snapshot ==
  \A p \in Procs :
    InBody(p) =>
      /\ snap[p] # Null
      /\ Val(snap[p]) = RowOf(orders[call[p].orderId])
      /\ lock[call[p].orderId] = p

\* B waited for the lock while A confirmed the order; A committed, and B's
\* snapshot shows the order CONFIRMED
C8_Witness ==
  \E a, b \in Procs :
    /\ a # b
    /\ pc[a] = "done" /\ result[a] = "Ok" /\ call[a].op = "confirm"
    /\ InBody(b) /\ waited[b]
    /\ call[b].orderId = call[a].orderId
    /\ Val(snap[b]).status = "CONFIRMED"

\* ------------------------------------------------------------------------ C9
\* fn is entered on a locked order whose status is not ticked for the operation
C9_BodyStep ==
  \A p \in Procs :
    (/\ pc[p] = "fn" /\ call[p].op \in LockedOps
     /\ ~Ticked(call[p].op, Val(snap[p]).status)
     /\ pc'[p] # "fn")
    => /\ pc'[p] = "done"
       /\ result'[p] \in {"InvalidState", "Timeout"}
       /\ orders' = orders

\* a request answered by the checks made before the lock
AnsweredBeforeLock(p, op, o) ==
  /\ pc'[p] = "done"
  /\ CASE op = "addItems" -> \E l \in LineInputs : addItemsToOrder(p, o, l)
       [] op = "void" -> \E i \in VoidInputs : voidOrderItem(p, o, i)
       [] op = "updateQuantity" -> \E q \in QuantityInputs : updateItemQuantity(p, o, q)
       [] op = "checkout" -> \E d \in CheckoutInputs : checkoutOrder(p, o, d)
       [] OTHER -> FALSE

C9_RequestStep ==
  \A p \in Procs, o \in DOMAIN orders, op \in LockedOps :
    (AnsweredBeforeLock(p, op, o) /\ ~Ticked(op, orders[o].status))
    => result'[p] = "InvalidState"

\* C9 as written: an operation invoked on an order whose status is not ticked
\* for it fails with InvalidState and changes nothing (read of the calls the
\* database does not abort)
C9_AsWritten == [][C9_BodyStep /\ C9_RequestStep]_vars

\* C9: an operation whose request passes the checks made before the lock and
\* whose fn is given an order in a status not ticked for it fails with
\* InvalidState, unless the database aborts the transaction, and changes
\* nothing; a call that fails changes nothing
C9_NotTicked ==
  [][C9_BodyStep /\ \A p \in Procs : FailsNow(p) => orders' = orders]_vars

\* a void of an item of an OPEN order was refused
C9_Witness ==
  \E p \in Procs :
    /\ pc[p] = "done" /\ result[p] = "InvalidState"
    /\ call[p].op = "void"
    /\ snap[p] # Null /\ Val(snap[p]).status = "OPEN"
    /\ RowOf(orders[call[p].orderId]) = Val(snap[p])

\* ----------------------------------------------------------------------- C10
\* C10: canAddItems holds exactly of OPEN and CONFIRMED, canModifyItems of
\* OPEN, canVoidItem of CONFIRMED, canCheckout of CONFIRMED, canCancel of OPEN
\* and CONFIRMED, and validateStateTransition(s, t) exactly when s -> t is one
\* of the four allowed changes
C10_Predicates ==
  pout # Null =>
    LET i == Val(pin)
        r == Val(pout)
    IN /\ r.canAddItems = (i.s \in {"OPEN", "CONFIRMED"})
       /\ r.canModifyItems = (i.s = "OPEN")
       /\ r.canVoidItem = (i.s = "CONFIRMED")
       /\ r.canCheckout = (i.s = "CONFIRMED")
       /\ r.canCancel = (i.s \in {"OPEN", "CONFIRMED"})
       /\ r.validateStateTransition = (<<i.s, i.t>> \in AllowedStatusChanges)

\* the predicates applied to CONFIRMED, and the transition CONFIRMED -> PAID
C10_Witness ==
  /\ pout # Null
  /\ Val(pin).s = "CONFIRMED" /\ Val(pin).t = "PAID"
  /\ Val(pout).validateStateTransition
  /\ Val(pout).canVoidItem /\ ~Val(pout).canModifyItems

\* ----------------------------------------------------------------------- C11
\* p's transaction commits in this step
CommitsNow(p) == pc[p] = "commit" /\ pc'[p] = "done" /\ result'[p] = "Ok"

ExpectedBatch(items) ==
  IF items = <<>> THEN 1
  ELSE 1 + CHOOSE m \in {items[i].batchSequence : i \in DOMAIN items} :
             \A i \in DOMAIN items : items[i].batchSequence <= m

C11_BatchStep ==
  \A p \in Procs :
    CommitsNow(p) =>
      CASE call[p].op = "addItems" ->
             LET old == orders[call[p].orderId].items
                 new == orders'[call[p].orderId].items
             IN /\ old = Val(snap[p]).items
                /\ Len(new) > Len(old)
                /\ \A i \in DOMAIN old : new[i] = old[i]
                /\ \A i \in (Len(old) + 1) .. Len(new) :
                     new[i].batchSequence = ExpectedBatch(old)
        [] call[p].op = "create" ->
             /\ Len(orders') = Len(orders) + 1
             /\ \A i \in DOMAIN orders'[Len(orders')].items :
                  orders'[Len(orders')].items[i].batchSequence = 1
        [] OTHER -> TRUE

\* C11: a committed add-items gives every item it inserts the batchSequence
\* 1 + the largest batchSequence of the items the order had when the lock was
\* acquired (1 if none); a committed create gives every item batchSequence 1
C11_BatchSequence == [][C11_BatchStep]_vars

\* two add-items ran concurrently on one order, the second waited for the
\* first: the order has batches 1, 2 and 3
C11_Witness ==
  \E o \in DOMAIN orders, p \in Procs :
    /\ {orders[o].items[i].batchSequence : i \in DOMAIN orders[o].items} = {1, 2, 3}
    /\ pc[p] = "done" /\ result[p] = "Ok" /\ call[p].op = "addItems"
    /\ waited[p]

\* ----------------------------------------------------------------------- C12
C12_ReasonIffVoided ==
  \A o \in DOMAIN orders : \A i \in DOMAIN orders[o].items :
    LET item == orders[o].items[i]
    IN /\ (item.voidReason # Null) <=> (item.status = "VOIDED")
       /\ item.status = "VOIDED" => Val(item.voidReason) # ""

C12_VoidedStep ==
  \A o \in DOMAIN orders : \A i \in DOMAIN orders[o].items :
    orders[o].items[i].status = "VOIDED" =>
      /\ i \in DOMAIN orders'[o].items
      /\ orders'[o].items[i].id = orders[o].items[i].id
      /\ orders'[o].items[i].status = "VOIDED"

\* C12: in every committed state an item has a voidReason exactly when it is
\* VOIDED, the reason of a VOIDED item is not empty, and a VOIDED item is
\* VOIDED in every later state
C12_VoidReason == []C12_ReasonIffVoided /\ [][C12_VoidedStep]_vars

\* an item was voided with a reason, and the order was paid afterwards
C12_Witness ==
  \E o \in DOMAIN orders : \E i \in DOMAIN orders[o].items :
    /\ orders[o].items[i].status = "VOIDED"
    /\ orders[o].items[i].voidReason = Some("wrong order")
    /\ orders[o].status = "PAID"

\* ----------------------------------------------------------------------- C13
\* fn of a void runs on a locked order in which the item is VOIDED already
C13_VoidedAgainStep ==
  \A p \in Procs, input \in VoidInputs :
    (/\ pc[p] = "fn" /\ pc'[p] # "fn" /\ call[p].op = "void"
     /\ \E i \in DOMAIN Val(snap[p]).items :
          /\ Val(snap[p]).items[i].id = input.itemId
          /\ Val(snap[p]).items[i].status = "VOIDED"
     /\ voidOrderItemFn(p, input))
    => /\ pc'[p] = "done" /\ result'[p] = "InvalidState"
       /\ orders' = orders

C13_OneVoidRow ==
  \A o \in DOMAIN orders : \A i \in DOMAIN orders[o].items :
    Cardinality({l \in RowsOf(orders[o], OrderAction.VOID_ITEM) :
                   orders[o].logs[l].details.itemId = orders[o].items[i].id})
      = IF orders[o].items[i].status = "VOIDED" THEN 1 ELSE 0

\* C13: a void of an item that is VOIDED already fails with InvalidState and
\* changes nothing; every VOIDED item has exactly one VOID_ITEM row (so of the
\* voids of one item at most one succeeded) and an ACTIVE item has none
C13_DoubleVoid == []C13_OneVoidRow /\ [][C13_VoidedAgainStep]_vars

\* a void waited for the lock and then found the order's only item VOIDED
C13_Witness ==
  \E p \in Procs :
    /\ pc[p] = "done" /\ result[p] = "InvalidState" /\ call[p].op = "void"
    /\ waited[p]
    /\ snap[p] # Null /\ Val(snap[p]).status = "CONFIRMED"
    /\ Len(Val(snap[p]).items) = 1
    /\ Val(snap[p]).items[1].status = "VOIDED"

\* ----------------------------------------------------------------------- C14
C14_FrozenStep ==
  /\ \A o \in DOMAIN orders : \A i \in DOMAIN orders[o].items :
       /\ orders'[o].items[i].productName = orders[o].items[i].productName
       /\ orders'[o].items[i].pricePerUnit = orders[o].items[i].pricePerUnit
  /\ products' # products => orders' = orders

\* C14: no step changes the productName or pricePerUnit of an existing order
\* item; a step that changes a product (updateProduct, deleteProduct) changes
\* no order row, item or total
C14_FrozenPrice == [][C14_FrozenStep]_vars

\* the product of a voided item was renamed and repriced: the item, and the
\* order paid afterwards or before, keep the name and price of the order time
C14_Witness ==
  \E o \in DOMAIN orders : \E i \in DOMAIN orders[o].items :
    /\ orders[o].items[i].productId = 2
    /\ orders[o].items[i].productName = "Tom Yum"
    /\ orders[o].items[i].pricePerUnit = 50
    /\ products[2].name = "Tom Yum Goong" /\ products[2].price = 55
    /\ orders[o].status = "CONFIRMED"
    /\ orders[o].subtotal = 50 * orders[o].items[i].quantity

\* ----------------------------------------------------------------------- C15
\* the tag each operation is to log with
ExpectedTag(op) ==
  CASE op = "create" -> "CREATE"
    [] op = "addItems" -> "ADD_ITEMS"
    [] op = "confirm" -> "CONFIRM"
    [] op = "void" -> "VOID_ITEM"
    [] op = "checkout" -> "CHECKOUT"
    [] op = "cancel" -> "CANCEL"

LoggedOps == {"create", "addItems", "confirm", "void", "checkout", "cancel"}

C15_LogStep ==
  /\ \A p \in Procs :
       (CommitsNow(p) /\ call[p].op \in LoggedOps) =>
         IF call[p].op = "create"
           THEN /\ Len(orders') = Len(orders) + 1
                /\ Len(orders'[Len(orders')].logs) = 1
                /\ orders'[Len(orders')].logs[1].action = "CREATE"
           ELSE LET old == orders[call[p].orderId]
                    new == orders'[call[p].orderId]
                IN /\ Len(new.logs) = Len(old.logs) + 1
                   /\ SubSeq(new.logs, 1, Len(old.logs)) = old.logs
                   /\ new.logs[Len(new.logs)].action = ExpectedTag(call[p].op)
                   /\ RowOf(new) # RowOf(old)
  /\ \A p \in Procs : FailsNow(p) => orders' = orders
  /\ (\A p \in Procs : ~CommitsNow(p)) => orders' = orders

\* C15: a create, add-items, confirm, void, checkout or cancel that succeeds
\* appends exactly one log row to its order, with the tag CREATE, ADD_ITEMS,
\* CONFIRM, VOID_ITEM, CHECKOUT or CANCEL, in the step that makes its mutation
\* visible; a call that fails appends none
C15_OneLogRow == [][C15_LogStep]_vars

\* an order created, confirmed, with an item voided, and paid
C15_Witness ==
  \E o \in DOMAIN orders :
    [l \in DOMAIN orders[o].logs |-> orders[o].logs[l].action]
      = <<"CREATE", "CONFIRM", "VOID_ITEM", "CHECKOUT">>

\* ----------------------------------------------------------------------- C16
C16_LoggedStep ==
  \A o \in DOMAIN orders :
    RowOf(orders'[o]) # RowOf(orders[o]) =>
      Len(orders'[o].logs) > Len(orders[o].logs)

\* C16: every step that changes a committed order's status, items (an item's
\* quantity included) or totals also adds a log row to that order
C16_EveryMutationLogged == [][C16_LoggedStep]_vars

\* ----------------------------------------------------------------------- C17
C17_AppendStep ==
  \A o \in DOMAIN orders :
    /\ o \in DOMAIN orders'
    /\ Len(orders'[o].logs) >= Len(orders[o].logs)
    /\ SubSeq(orders'[o].logs, 1, Len(orders[o].logs)) = orders[o].logs

\* C17: in every step the log rows of an order are a prefix of its log rows in
\* the next state
C17_AppendOnly == [][C17_AppendStep]_vars

\* an order with four log rows
C17_Witness ==
  \E o \in DOMAIN orders : Len(orders[o].logs) = 4

\* ----------------------------------------------------------------------- C18
\* fn of a checkout with a FIXED discount on a CONFIRMED order with an ACTIVE
\* item (the input value is in halves)
C18_FixedStep ==
  \A p \in Procs, d \in CheckoutInputs :
    (/\ pc[p] = "fn" /\ pc'[p] # "fn" /\ call[p].op = "checkout"
     /\ d.discountType = Some("FIXED") /\ d.discountValue # Null
     /\ Val(snap[p]).status = "CONFIRMED"
     /\ ActiveTotal(Val(snap[p]).items) > 0
     /\ checkoutOrderFn(p, d))
    => LET subtotal == ActiveTotal(Val(snap[p]).items)
       IN /\ Val(d.discountValue) > 2 * subtotal =>
               /\ pc'[p] = "done" /\ result'[p] = "Validation"
               /\ orders' = orders
               /\ orders[call[p].orderId].status = "CONFIRMED"
          /\ Val(d.discountValue) = 2 * subtotal =>
               /\ pc'[p] = "log"
               /\ Val(tx'[p]).status = "PAID"
               /\ Val(tx'[p]).discountValue = Some(subtotal)
               /\ Val(tx'[p]).grandTotal = 0

\* C18: a checkout with a FIXED discount greater than the subtotal of the
\* locked order's ACTIVE items fails with Validation and leaves the order
\* CONFIRMED and unchanged; a FIXED discount equal to that subtotal is accepted
\* and gives grandTotal 0
C18_FixedDiscount == [][C18_FixedStep]_vars

\* one checkout was refused inside the lock for its discount, another paid the
\* order with a FIXED discount equal to the subtotal
C18_Witness ==
  \E p \in Procs, o \in DOMAIN orders :
    /\ pc[p] = "done" /\ result[p] = "Validation" /\ call[p].op = "checkout"
    /\ snap[p] # Null /\ Val(snap[p]).status = "CONFIRMED"
    /\ ActiveTotal(Val(snap[p]).items) > 0
    /\ orders[o].status = "PAID"
    /\ orders[o].discountType = Some("FIXED")
    /\ orders[o].discountValue = Some(orders[o].subtotal)
    /\ orders[o].subtotal > 0 /\ orders[o].grandTotal = 0

\* ----------------------------------------------------------------------- C19
\* a checkout request with a PERCENT discount (the input value is in halves)
C19_PercentStep ==
  \A p \in Procs, o \in OrderIds, d \in CheckoutInputs :
    (/\ calls' # calls /\ call'[p].op = "checkout" /\ pc'[p] \in {"wait", "done"}
     /\ d.discountType = Some("PERCENT") /\ d.discountValue # Null
     /\ checkoutOrder(p, o, d))
    => IF Val(d.discountValue) < 0 \/ Val(d.discountValue) > 100
         THEN /\ pc'[p] = "done" /\ result'[p] = "Validation"
              /\ orders' = orders /\ lock' = lock /\ snap'[p] = Null
         ELSE pc'[p] = "wait" /\ result'[p] = "none"

C19_PaidPercent ==
  \A o \in DOMAIN orders :
    (orders[o].status = "PAID" /\ orders[o].discountType = Some("PERCENT")) =>
      /\ orders[o].discountValue # Null
      /\ Val(orders[o].discountValue) >= 0
      /\ Val(orders[o].discountValue) <= 50

NoActive(items) == \A i \in DOMAIN items : items[i].status # "ACTIVE"

C20_NoActiveStep ==
  \A p \in Procs :
    /\ (pc[p] = "fn" /\ pc'[p] # "fn" /\ call[p].op = "confirm"
        /\ Val(snap[p]).status = "OPEN" /\ NoActive(Val(snap[p]).items)
        /\ confirmOrderFn(p))
       => /\ pc'[p] = "done" /\ result'[p] = "Validation"
          /\ orders' = orders
    /\ \A d \in CheckoutInputs :
         (pc[p] = "fn" /\ pc'[p] # "fn" /\ call[p].op = "checkout"
          /\ Val(snap[p]).status = "CONFIRMED" /\ NoActive(Val(snap[p]).items)
          /\ checkoutOrderFn(p, d))
         => /\ pc'[p] = "done" /\ result'[p] = "Validation"
            /\ orders' = orders

C21_MissingStep ==
  \A p \in Procs :
    (pc[p] = "wait" /\ pc'[p] # "wait" /\ ~Exists(call[p].orderId))
    => /\ pc'[p] = "done" /\ result'[p] = "NotFound"
       /\ orders' = orders /\ lock' = lock
       /\ tx'[p] = Null /\ snap'[p] = Null

\* fn runs only on an order that exists
C21_BodyHasOrder ==
  \A p \in Procs : InBody(p) => Exists(call[p].orderId)

\* a request on an order id that has no row, answered before withOrderLock
C21_RequestStep ==
  \A p \in Procs, o \in OrderIds, op \in LockedOps :
    (~Exists(o) /\ AnsweredBeforeLock(p, op, o)) => result'[p] = "NotFound"

\* C21 as written: withOrderLock on an id without an order fails with NotFound
\* and fn is not invoked, so every add-items, confirm, void, update-quantity,
\* checkout and cancel on such an id fails with NotFound and writes nothing
C21_AsWritten ==
  []C21_BodyHasOrder /\ [][C21_MissingStep /\ C21_RequestStep]_vars

\* C21: withOrderLock on an id without an order fails with NotFound, fn is not
\* invoked and nothing is written; so an add-items, confirm, void,
\* update-quantity, checkout or cancel that reaches withOrderLock on such an id
\* fails with NotFound, and every failing call writes nothing
C21_NotFound ==
  /\ []C21_BodyHasOrder
  /\ [][C21_MissingStep /\ \A p \in Procs : FailsNow(p) => orders' = orders]_vars

\* a confirm of an order id without a row was answered NotFound by withOrderLock
C21_Witness ==
  \E p \in Procs :
    /\ pc[p] = "done" /\ result[p] = "NotFound" /\ call[p].op = "confirm"
    /\ snap[p] = Null
    /\ ~Exists(call[p].orderId)


\* ----------------------------------------------------------------------- C22
\* tryOrderLock reaches its SELECT ... FOR UPDATE NOWAIT on an order that exists
C22_TryStep ==
  \A p \in Procs :
    (pc[p] = "trywait" /\ pc'[p] # "trywait" /\ Exists(call[p].orderId)) =>
      LET orderId == call[p].orderId
      IN IF lock[orderId] # NoProc
           THEN /\ pc'[p] = "done" /\ result'[p] = "null"
                /\ orders' = orders /\ lock' = lock
                /\ tx'[p] = Null /\ snap'[p] = Null
           ELSE /\ pc'[p] = "fn"
                /\ lock' = [lock EXCEPT ![orderId] = p]
                /\ snap'[p] = Some(RowOf(orders[orderId]))
                /\ orders' = orders

\* C22: tryOrderLock called while another transaction holds the order's lock
\* does not wait: it returns null, fn is not invoked and nothing changes; when
\* the order is not locked it takes the lock and passes fn the committed order,
\* as withOrderLock does
C22_TryOrderLock == [][C22_TryStep]_vars


\* ----------------------------------------------------------------------- C23
\* p's SELECT is blocked on a row that q holds
WaitsFor(p, q) ==
  /\ p # q
  /\ pc[p] = "mlock" /\ rowsToLock(p) # <<>>
  /\ lock[Head(rowsToLock(p))] = q

\* a set of calls each of which waits for a row held by another of the set
CircularWait(S) ==
  /\ S # {}
  /\ \A p \in S : \E q \in S : WaitsFor(p, q)

C23_NoCircularWait == \A S \in SUBSET MultiProcs : ~CircularWait(S)

\* a call in flight can take a step
CanStep(p) ==
  \/ pc[p] = "fn"
  \/ pc[p] = "mlock" /\ (rowsToLock(p) = <<>> \/ lock[Head(rowsToLock(p))] = NoProc)

C23_Progress ==
  (\E p \in MultiProcs : pc[p] \in {"mlock", "fn"}) => \E p \in MultiProcs : CanStep(p)

\* a row is locked by a call that holds no row of a larger id
C23_AscendingStep ==
  \A p \in MultiProcs, o \in MultiOrderIds :
    (lock[o] # p /\ lock'[o] = p) => \A h \in heldBy(p) : h < o

\* C23: concurrent withMultipleOrderLock calls over overlapping sets of order
\* ids, given in any argument order, never reach a circular wait, and while a
\* call is in flight some call can take a step; every call locks its rows in
\* ascending order of id
C23_NoDeadlock ==
  /\ [](C23_NoCircularWait /\ C23_Progress)
  /\ [][C23_AscendingStep]_vars

\* a call given <<2, 1>> holds order 1 and waits for order 2, held by a call
\* given <<3, 2>> that waits for order 3, held by a third call
C23_Witness ==
  \E p, q, r \in MultiProcs :
    /\ call[p].op = "multi" /\ call[q].op = "multi"
    /\ WaitsFor(p, q) /\ WaitsFor(q, r)
    /\ call[p].orderIds = <<2, 1>> /\ heldBy(p) = {1}
    /\ call[q].orderIds = <<3, 2>> /\ heldBy(q) = {2}
    /\ heldBy(r) = {3}


\* ----------------------------------------------------------------------- C24
\* the answers of a call: committed, rolled back with its error, or aborted
\* with the retryable failure
C24_Answers ==
  \A p \in Procs :
    pc[p] = "done" =>
      result[p] \in {"Ok", "InvalidState", "Validation", "NotFound", "Timeout"}

\* a client leaves its answer only by a new request of the caller, and a call
\* that is aborted is answered, not started again
C24_NoRetryStep ==
  \A p \in Procs :
    /\ (pc[p] = "done" /\ pc'[p] # "done") => calls' = calls + 1
    /\ (InTx(p) /\ pc'[p] = "wait") => pc[p] = "wait"
    /\ result'[p] = "Timeout" => pc'[p] = "done"

\* a lock is held only by a call that is inside its transaction, past the wait
C24_LockHeldInTx ==
  \A o \in OrderIds, p \in Procs :
    lock[o] = p => pc[p] \in {"fn", "update", "log", "commit"}

\* C24: under fair scheduling every call inside a transaction is eventually
\* answered (committed, rolled back with an error, or aborted by the timeout);
\* a lock is held only by a call in flight, so it is released when the call is
\* answered and no caller waits forever; an aborted call is not started again
\* by the service
C24_Terminates ==
  /\ \A p \in Procs : []<>(~InTx(p))
  /\ [](C24_Answers /\ C24_LockHeldInTx)
  /\ [][C24_NoRetryStep]_vars

\* a call that waited for the lock was aborted by the timeout while another
\* client committed
C24_Witness ==
  \E p, q \in Procs :
    /\ p # q
    /\ pc[p] = "done" /\ result[p] = "Timeout" /\ waited[p] /\ snap[p] = Null
    /\ call[p].op \in LockedOps
    /\ pc[q] = "done" /\ result[q] = "Ok"
    /\ \A o \in OrderIds : lock[o] = NoProc


C26_EmptyReasonStep ==
  \A p \in Procs, o \in OrderIds, input \in VoidInputs :
    (/\ calls' # calls /\ call'[p].op = "void" /\ pc'[p] \in {"wait", "done"}
     /\ input.reason = ""
     /\ voidOrderItem(p, o, input))
    => /\ pc'[p] = "done" /\ result'[p] = "Validation"
       /\ orders' = orders /\ lock' = lock
       /\ tx'[p] = Null /\ snap'[p] = Null

C26_NoEmptyVoidReason ==
  \A o \in DOMAIN orders : \A i \in DOMAIN orders[o].items :
    orders[o].items[i].status = "VOIDED" => orders[o].items[i].voidReason # Some("")

\* C26: a void request with an empty reason is answered Validation without the
\* lock being asked for, and changes no item, total or log row; no committed
\* item is VOIDED with an empty voidReason
C26_EmptyReason == []C26_NoEmptyVoidReason /\ [][C26_EmptyReasonStep]_vars

\* a void of the ACTIVE item 1 of a CONFIRMED order was answered Validation
\* before the lock
C26_Witness ==
  \E p \in Procs :
    /\ pc[p] = "done" /\ result[p] = "Validation" /\ call[p].op = "void"
    /\ snap[p] = Null
    /\ Exists(call[p].orderId)
    /\ orders[call[p].orderId].status = "CONFIRMED"
    /\ orders[call[p].orderId].items[1].status = "ACTIVE"
    /\ RowsOf(orders[call[p].orderId], OrderAction.VOID_ITEM) = {}


\* ----------------------------------------------------------------------- C27
\* the sum of price * quantity over the lines of a request, at the prices its
\* product lookup returned
RECURSIVE LinesTotal(_, _)
LinesTotal(lines, productMap) ==
  IF lines = <<>> THEN 0
  ELSE productMap[Head(lines).productId].price * Head(lines).quantity
       + LinesTotal(Tail(lines), productMap)

C27_CreateStep ==
  \A p \in Procs :
    /\ (pc[p] # "fn" /\ call'[p].op = "create" /\ pc'[p] = "fn") =>
         \A i \in DOMAIN call'[p].itemsInput :
           call'[p].productMap[call'[p].itemsInput[i].productId]
             = products[call'[p].itemsInput[i].productId]
    /\ (CommitsNow(p) /\ call[p].op = "create") =>
         LET lines == call[p].itemsInput
             found == call[p].productMap
             order == orders'[Len(orders')]
         IN /\ Len(lines) >= 1
            /\ Len(orders') = Len(orders) + 1
            /\ order.status = "OPEN"
            /\ order.discountType = Null /\ order.discountValue = Null
            /\ Len(order.items) = Len(lines)
            /\ \A i \in DOMAIN lines :
                 /\ order.items[i].status = "ACTIVE"
                 /\ order.items[i].voidReason = Null
                 /\ order.items[i].batchSequence = 1
                 /\ order.items[i].productId = lines[i].productId
                 /\ order.items[i].quantity = lines[i].quantity
                 /\ order.items[i].productName = found[lines[i].productId].name
                 /\ order.items[i].pricePerUnit = found[lines[i].productId].price
            /\ order.subtotal = LinesTotal(lines, found)
            /\ order.grandTotal = LinesTotal(lines, found)
            /\ Len(order.logs) = 1
            /\ order.logs[1].action = "CREATE"

\* C27: a createOrder that succeeds adds one order: OPEN, without discount,
\* with one ACTIVE item per input line, each of batchSequence 1 and with the
\* name and price the product had when the call looked it up, subtotal and
\* grandTotal equal to the sum of price * quantity over the lines, and one log
\* row, tagged CREATE
C27_CreateOrder == [][C27_CreateStep]_vars

\* an order of two lines (33 * 1 + 50 * 2) was created
C27_Witness ==
  \E o \in DOMAIN orders :
    /\ Len(orders[o].items) = 2 /\ Len(orders[o].logs) = 1
    /\ orders[o].status = "OPEN"
    /\ orders[o].subtotal = 133 /\ orders[o].grandTotal = 133
    /\ orders[o].items[2].productName = "Tom Yum"
    /\ orders[o].items[2].quantity = 2


\* ----------------------------------------------------------------------- C28
\* a line refers to a product that does not exist or is inactive
MissingOrInactive(lines) ==
  \E i \in DOMAIN lines :
    \/ lines[i].productId \notin DOMAIN products
    \/ ~products[lines[i].productId].isActive

C28_ProductStep ==
  \A p \in Procs, lines \in LineInputs :
    (/\ pc[p] \in {"idle", "done"} /\ pc'[p] \in {"fn", "wait", "done"}
     /\ calls' # calls /\ call'[p].op \in {"create", "addItems"}
     /\ \/ \E t \in TableNumbers : createOrder(p, t, lines)
        \/ \E o \in OrderIds : addItemsToOrder(p, o, lines))
    => IF MissingOrInactive(lines)
         THEN /\ pc'[p] = "done" /\ result'[p] = "NotFound"
              /\ orders' = orders /\ lock' = lock
              /\ tx'[p] = Null /\ snap'[p] = Null
         ELSE pc'[p] \in {"fn", "wait"} /\ result'[p] = "none"

\* every committed item was ordered of a product that exists
C28_ItemsOfProducts ==
  \A o \in DOMAIN orders : \A i \in DOMAIN orders[o].items :
    orders[o].items[i].productId \in DOMAIN products

\* C28: a createOrder or addItemsToOrder with a line whose product does not
\* exist or is inactive fails with NotFound and creates no order, item or log
\* row and changes no totals; with every product found the request goes on
C28_ProductNotFound == []C28_ItemsOfProducts /\ [][C28_ProductStep]_vars

\* product 1 was deactivated and an add-items on an existing order was then
\* answered NotFound before the lock; the order is as it was created
C28_Witness ==
  \E p \in Procs :
    /\ pc[p] = "done" /\ result[p] = "NotFound" /\ call[p].op = "addItems"
    /\ snap[p] = Null
    /\ ~products[1].isActive
    /\ Exists(call[p].orderId)
    /\ Len(orders[call[p].orderId].items) = 1
    /\ Len(orders[call[p].orderId].logs) = 1
    /\ orders[call[p].orderId].subtotal = 50


\* ----------------------------------------------------------------------- C29
ItemIdsOf(order) == {order.items[i].id : i \in DOMAIN order.items}

C29_ItemsStep ==
  \A o \in DOMAIN orders :
    /\ o \in DOMAIN orders'
    /\ ItemIdsOf(orders[o]) \subseteq ItemIdsOf(orders'[o])
    /\ \A i \in DOMAIN orders[o].items :
         \E j \in DOMAIN orders'[o].items :
           /\ orders'[o].items[j].id = orders[o].items[i].id
           /\ orders'[o].items[j].productId = orders[o].items[i].productId
           /\ orders'[o].items[j].batchSequence = orders[o].items[i].batchSequence

\* C29: in every step the item ids of an order are kept (the set only grows),
\* each item stays in its order and keeps its productId and batchSequence
C29_ItemsKept == [][C29_ItemsStep]_vars

\* an order whose first item was voided and that got a second batch afterwards
C29_Witness ==
  \E o \in DOMAIN orders :
    /\ Len(orders[o].items) >= 2
    /\ orders[o].items[1].status = "VOIDED"
    /\ orders[o].items[1].batchSequence = 1
    /\ orders[o].items[Len(orders[o].items)].batchSequence = 2
    /\ orders[o].items[Len(orders[o].items)].status = "ACTIVE"


\* ----------------------------------------------------------------------- C30
C30_FrameStep ==
  \A p \in Procs :
    (CommitsNow(p) /\ call[p].op \in {"confirm", "cancel"}) =>
      LET old == orders[call[p].orderId]
          new == orders'[call[p].orderId]
          last == new.logs[Len(new.logs)]
      IN /\ new.status = IF call[p].op = "confirm" THEN "CONFIRMED" ELSE "CANCELLED"
         /\ new.status # old.status
         /\ new.items = old.items
         /\ new.tableNumber = old.tableNumber
         /\ new.subtotal = old.subtotal
         /\ new.discountType = old.discountType
         /\ new.discountValue = old.discountValue
         /\ new.grandTotal = old.grandTotal
         /\ Len(new.logs) = Len(old.logs) + 1
         /\ SubSeq(new.logs, 1, Len(old.logs)) = old.logs
         /\ last.action = IF call[p].op = "confirm" THEN "CONFIRM" ELSE "CANCEL"
         /\ call[p].op = "cancel" => last.details.previousStatus = old.status
         /\ \A o \in DOMAIN orders \ {call[p].orderId} : orders'[o] = orders[o]

\* C30: a confirm or cancel that succeeds changes the order's status to
\* CONFIRMED or CANCELLED and appends one log row; the items, subtotal,
\* discountType, discountValue and grandTotal stay as they were, and the CANCEL
\* row records the status the order had before
C30_StatusOnly == [][C30_FrameStep]_vars

\* a CONFIRMED order with a voided item was cancelled: the CANCEL row says
\* CONFIRMED and the totals are those of before
C30_Witness ==
  \E o \in DOMAIN orders :
    /\ orders[o].status = "CANCELLED"
    /\ orders[o].logs[Len(orders[o].logs)].action = "CANCEL"
    /\ orders[o].logs[Len(orders[o].logs)].details.previousStatus = "CONFIRMED"
    /\ \E i \in DOMAIN orders[o].items : orders[o].items[i].status = "VOIDED"
    /\ orders[o].grandTotal > 0


\* ----------------------------------------------------------------------- C31
\* fn of an update-quantity runs on a locked OPEN order
C31_ItemStep ==
  \A p \in Procs, input \in QuantityInputs :
    (/\ pc[p] = "fn" /\ pc'[p] # "fn" /\ call[p].op = "updateQuantity"
     /\ result'[p] # "Timeout"
     /\ Val(snap[p]).status = "OPEN"
     /\ updateItemQuantityFn(p, input))
    => LET hits == {i \in DOMAIN Val(snap[p]).items :
                      Val(snap[p]).items[i].id = input.itemId}
       IN IF hits = {}
            THEN pc'[p] = "done" /\ result'[p] = "NotFound" /\ orders' = orders
          ELSE IF \E i \in hits : Val(snap[p]).items[i].status = "VOIDED"
            THEN pc'[p] = "done" /\ result'[p] = "InvalidState" /\ orders' = orders
          ELSE pc'[p] = "update" /\ orders' = orders

\* an update-quantity commits
C31_CommitStep ==
  \A p \in Procs :
    (CommitsNow(p) /\ call[p].op = "updateQuantity") =>
      LET old == orders[call[p].orderId]
          new == orders'[call[p].orderId]
      IN /\ call[p].quantity >= 1
         /\ old.status = "OPEN" /\ new.status = "OPEN"
         /\ Len(new.items) = Len(old.items)
         /\ \E i \in DOMAIN old.items :
              /\ old.items[i].id = call[p].itemId
              /\ old.items[i].status = "ACTIVE"
              /\ new.items = [old.items EXCEPT ![i].quantity = call[p].quantity]
         /\ new.subtotal = ActiveTotal(new.items)
         /\ new.grandTotal = new.subtotal
         /\ new.discountType = old.discountType
         /\ new.discountValue = old.discountValue
         /\ new.logs = old.logs

C32_DecideStep ==
  \A p \in Procs, d \in CheckoutInputs :
    (/\ pc[p] = "fn" /\ pc'[p] # "fn" /\ call[p].op = "checkout"
     /\ d.discountType = Some("FIXED") /\ d.discountValue # Null
     /\ orders[call[p].orderId].status = "CONFIRMED"
     /\ ActiveTotal(orders[call[p].orderId].items) > 0
     /\ checkoutOrderFn(p, d))
    => LET subtotal == ActiveTotal(orders[call[p].orderId].items)
       IN /\ subtotal = ActiveTotal(Val(snap[p]).items)
          /\ IF Val(d.discountValue) <= 2 * subtotal
               THEN pc'[p] = "log" /\ Val(tx'[p]).subtotal = subtotal
               ELSE pc'[p] = "done" /\ result'[p] = "Validation" /\ orders' = orders

\* a checkout with a FIXED discount commits
C32_CommitStep ==
  \A p \in Procs :
    (CommitsNow(p) /\ call[p].op = "checkout" /\ call[p].discountType = Some("FIXED")) =>
      /\ Val(call[p].discountValueBigInt) <= ActiveTotal(orders[call[p].orderId].items)
      /\ orders'[call[p].orderId].items = orders[call[p].orderId].items
      /\ orders'[call[p].orderId].subtotal = ActiveTotal(orders[call[p].orderId].items)

C32_PaidFixed ==
  \A o \in DOMAIN orders :
    (orders[o].status = "PAID" /\ orders[o].discountType = Some("FIXED")) =>
      /\ orders[o].discountValue # Null
      /\ Val(orders[o].discountValue) <= orders[o].subtotal

\* C32: a checkout with a FIXED discount compares the discount with the
\* subtotal of the items the order has when the checkout holds the lock, voids
\* and add-items committed before included; every PAID order with discountType
\* FIXED has discountValue <= subtotal
C32_FixedUnderLock == []C32_PaidFixed /\ [][C32_DecideStep /\ C32_CommitStep]_vars

\* a checkout waited for the lock while a void committed, and its FIXED
\* discount, within the subtotal before the void (133), exceeded the subtotal
\* it found (33)
C32_Witness ==
  \E p, q \in Procs :
    /\ p # q
    /\ pc[p] = "done" /\ result[p] = "Validation" /\ call[p].op = "checkout"
    /\ waited[p] /\ snap[p] # Null
    /\ Val(snap[p]).status = "CONFIRMED"
    /\ Len(Val(snap[p]).items) = 2
    /\ Val(snap[p]).items[2].status = "VOIDED"
    /\ ActiveTotal(Val(snap[p]).items) = 33
    /\ pc[q] = "done" /\ result[q] = "Ok" /\ call[q].op = "void"


\* ----------------------------------------------------------------------- C33
\* the price * quantity of the rows i of items
RECURSIVE RowsTotal(_, _)
RowsTotal(items, rows) ==
  IF rows = {} THEN 0
  ELSE LET i == CHOOSE x \in rows : TRUE
       IN items[i].pricePerUnit * items[i].quantity + RowsTotal(items, rows \ {i})

\* an add-items, void or update-quantity commits: it changes what the database
\* holds at that moment, which is what it read under the lock, by its own
\* change only
C33_CommitStep ==
  \A p \in Procs :
    (CommitsNow(p) /\ call[p].op \in {"addItems", "void", "updateQuantity"}) =>
      LET old == orders[call[p].orderId]
          new == orders'[call[p].orderId]
      IN /\ RowOf(old) = Val(snap[p])
         /\ new.subtotal = ActiveTotal(new.items)
         /\ CASE call[p].op = "addItems" ->
                   /\ SubSeq(new.items, 1, Len(old.items)) = old.items
                   /\ Len(new.items) = Len(old.items) + Len(call[p].itemsInput)
                   /\ \A i \in (Len(old.items) + 1) .. Len(new.items) :
                        /\ new.items[i].batchSequence = MaxBatch(old.items) + 1
                        /\ new.items[i].status = "ACTIVE"
                   /\ new.subtotal
                        = old.subtotal
                          + RowsTotal(new.items, (Len(old.items) + 1) .. Len(new.items))
              [] call[p].op = "void" ->
                   \E i \in DOMAIN old.items :
                     /\ old.items[i].id = call[p].itemId
                     /\ old.items[i].status = "ACTIVE"
                     /\ new.items = [old.items EXCEPT
                                       ![i].status = "VOIDED",
                                       ![i].voidReason = Some(call[p].reason)]
                     /\ new.subtotal = old.subtotal - RowsTotal(old.items, {i})
              [] call[p].op = "updateQuantity" ->
                   \E i \in DOMAIN old.items :
                     /\ old.items[i].id = call[p].itemId
                     /\ new.items = [old.items EXCEPT ![i].quantity = call[p].quantity]

\* the batches of an order are 1 .. k, and each batch after the first has its
\* own ADD_ITEMS row
C33_Batches ==
  \A o \in DOMAIN orders :
    LET batches == {orders[o].items[i].batchSequence : i \in DOMAIN orders[o].items}
    IN /\ batches = 1 .. Cardinality(batches)
       /\ Cardinality(RowsOf(orders[o], OrderAction.ADD_ITEMS)) = Cardinality(batches) - 1
       /\ orders[o].subtotal = ActiveTotal(orders[o].items)

\* C33: no update is lost when add-items, void and update-quantity race on an
\* order: each commits its own change on top of what was committed before it,
\* so add-items calls that both commit carry consecutive batch numbers and the
\* subtotal counts the items of both, and after an add-items and a void the
\* subtotal counts the added items and not the voided one
C33_NoLostUpdate == []C33_Batches /\ [][C33_CommitStep]_vars

\* an add-items and a void raced on a CONFIRMED order of one item (one waited
\* for the other's lock) and both committed: item 1 is VOIDED, batch 2 is there
\* and the subtotal is that of batch 2
C33_Witness ==
  \E p, q \in Procs, o \in DOMAIN orders :
    /\ pc[p] = "done" /\ result[p] = "Ok" /\ call[p].op = "void"
    /\ pc[q] = "done" /\ result[q] = "Ok" /\ call[q].op = "addItems"
    /\ waited[p] \/ waited[q]
    /\ Len(orders[o].items) = 2
    /\ orders[o].items[1].status = "VOIDED"
    /\ orders[o].items[2].status = "ACTIVE"
    /\ orders[o].items[2].batchSequence = 2
    /\ orders[o].subtotal = orders[o].items[2].pricePerUnit * orders[o].items[2].quantity
    /\ RowsOf(orders[o], OrderAction.VOID_ITEM) # {}
    /\ RowsOf(orders[o], OrderAction.ADD_ITEMS) # {}


\* ----------------------------------------------------------------------- C34
\* p has been answered a cancel and q a checkout of the same order; the first
\* of the two to get the lock found the order CONFIRMED with an ACTIVE item
CancelCheckoutPair(p, q) ==
  /\ p # q
  /\ pc[p] = "done" /\ pc[q] = "done"
  /\ call[p].op = "cancel" /\ call[q].op = "checkout"
  /\ call[p].orderId = call[q].orderId
  /\ snap[p] # Null /\ snap[q] # Null
  /\ \E f \in {p, q} :
       /\ Val(snap[f]).status = "CONFIRMED"
       /\ ~NoActive(Val(snap[f]).items)
  /\ {Val(snap[p]).status, Val(snap[q]).status} \subseteq {"CONFIRMED", "PAID", "CANCELLED"}

\* one of the two succeeded, the other failed with InvalidState, and the order
\* has the status and the one row of the call that succeeded
ExactlyOneCloses(p, q) ==
  LET order == orders[call[p].orderId]
  IN /\ {result[p], result[q]} = {"Ok", "InvalidState"}
     /\ result[p] = "Ok" =>
          /\ order.status = "CANCELLED"
          /\ Cardinality(RowsOf(order, OrderAction.CANCEL)) = 1
          /\ RowsOf(order, OrderAction.CHECKOUT) = {}
     /\ result[q] = "Ok" =>
          /\ order.status = "PAID"
          /\ Cardinality(RowsOf(order, OrderAction.CHECKOUT)) = 1
          /\ RowsOf(order, OrderAction.CANCEL) = {}

\* no order has both a CHECKOUT and a CANCEL row, and a closing row goes with
\* the status it names
C34_OneClosingRow ==
  \A o \in DOMAIN orders :
    /\ RowsOf(orders[o], OrderAction.CHECKOUT) = {} \/ RowsOf(orders[o], OrderAction.CANCEL) = {}
    /\ RowsOf(orders[o], OrderAction.CHECKOUT) # {} => orders[o].status = "PAID"
    /\ RowsOf(orders[o], OrderAction.CANCEL) # {} => orders[o].status = "CANCELLED"

\* C34 as written: of a cancel and a checkout racing on a CONFIRMED order with
\* an ACTIVE item exactly one succeeds and the other fails with InvalidState
\* (read of the calls the database does not abort)
C34_AsWritten ==
  /\ \A p, q \in Procs :
       (/\ CancelCheckoutPair(p, q)
        /\ waited[p] \/ waited[q]
        /\ result[p] # "Timeout" /\ result[q] # "Timeout")
       => ExactlyOneCloses(p, q)
  /\ C34_OneClosingRow

\* C34: of a cancel and a checkout of one CONFIRMED order with an ACTIVE item,
\* the checkout not rejected for its discount (Validation) and neither aborted
\* by the database, exactly one succeeds and the other fails with InvalidState;
\* no order ever has both a CHECKOUT and a CANCEL row, and the status of the
\* order is the one its closing row names
C34_CancelOrCheckout ==
  /\ \A p, q \in Procs :
       (/\ CancelCheckoutPair(p, q)
        /\ {result[p], result[q]} \cap {"Validation", "Timeout"} = {})
       => ExactlyOneCloses(p, q)
  /\ C34_OneClosingRow

\* a cancel waited for the lock of a checkout: the checkout paid and the cancel
\* found the order PAID
C34_Witness ==
  \E p, q \in Procs :
    /\ CancelCheckoutPair(p, q)
    /\ waited[p]
    /\ Val(snap[q]).status = "CONFIRMED"
    /\ Val(snap[p]).status = "PAID"
    /\ result[q] = "Ok" /\ result[p] = "InvalidState"
    /\ orders[call[p].orderId].status = "PAID"


\* ----------------------------------------------------------------------- C35
ClosingActions == {OrderAction.CHECKOUT, OrderAction.CANCEL}

LogShape(order) ==
  LET logs == order.logs
  IN /\ logs # <<>>
     /\ logs[1].action = OrderAction.CREATE
     /\ Cardinality(RowsOf(order, OrderAction.CREATE)) = 1
     /\ Cardinality(RowsOf(order, OrderAction.CONFIRM)) <= 1
     /\ Cardinality({l \in DOMAIN logs : logs[l].action \in ClosingActions}) <= 1
     /\ \A l \in DOMAIN logs : logs[l].action \in ClosingActions => l = Len(logs)
     /\ RowsOf(order, OrderAction.CHECKOUT) # {} <=> order.status = "PAID"
     /\ RowsOf(order, OrderAction.CANCEL) # {} <=> order.status = "CANCELLED"
     /\ \A l \in RowsOf(order, OrderAction.CHECKOUT) :
          \E k \in 1 .. (l - 1) : logs[k].action = OrderAction.CONFIRM

\* C35: the log rows of every order, in append order, begin with the only
\* CREATE row, hold at most one CONFIRM row and at most one CHECKOUT or CANCEL
\* row, which is the last row; there is a CHECKOUT row iff the order is PAID, a
\* CANCEL row iff it is CANCELLED, and a CONFIRM row comes before a CHECKOUT row
C35_LogOrder == \A o \in DOMAIN orders : LogShape(orders[o])

\* an order with the rows CREATE, ADD_ITEMS, CONFIRM, CHECKOUT
C35_Witness ==
  \E o \in DOMAIN orders :
    /\ orders[o].status = "PAID"
    /\ [l \in DOMAIN orders[o].logs |-> orders[o].logs[l].action]
         = <<OrderAction.CREATE, OrderAction.ADD_ITEMS, OrderAction.CONFIRM, OrderAction.CHECKOUT>>


\* ----------------------------------------------------------------------- C36
\* every item of an OPEN order is ACTIVE, and there is one
C36_OpenItemsActive ==
  \A o \in DOMAIN orders :
    orders[o].status = "OPEN" =>
      /\ orders[o].items # <<>>
      /\ \A i \in DOMAIN orders[o].items : orders[o].items[i].status = "ACTIVE"

C36_VoidStep ==
  /\ \A o \in DOMAIN orders :
       /\ o \in DOMAIN orders'
       \* no order comes back to OPEN
       /\ orders'[o].status = "OPEN" => orders[o].status = "OPEN"
       \* an item becomes VOIDED only in a CONFIRMED order
       /\ \A i \in DOMAIN orders[o].items :
            (/\ orders[o].items[i].status = "ACTIVE"
             /\ i \in DOMAIN orders'[o].items
             /\ orders'[o].items[i].status = "VOIDED")
            => orders[o].status = "CONFIRMED" /\ orders'[o].status = "CONFIRMED"
  \* the body of a confirm that locked an OPEN order goes on to its update
  /\ \A p \in Procs :
       (pc[p] = "fn" /\ pc'[p] # "fn" /\ call[p].op = "confirm"
        /\ Val(snap[p]).status = "OPEN"
        /\ confirmOrderFn(p))
       => /\ ~NoActive(Val(snap[p]).items)
          /\ pc'[p] # "done"

\* C36: every item of an OPEN order is ACTIVE, since an item becomes VOIDED
\* only while its order is CONFIRMED and no order returns to OPEN; an OPEN
\* order has an ACTIVE item, and a confirm of it is never refused for having
\* none
C36_OpenAllActive == []C36_OpenItemsActive /\ [][C36_VoidStep]_vars

\* a confirm locked an OPEN order of two batches, every item ACTIVE, and
\* committed
C36_Witness ==
  \E p \in Procs :
    /\ pc[p] = "done" /\ result[p] = "Ok" /\ call[p].op = "confirm"
    /\ snap[p] # Null /\ Val(snap[p]).status = "OPEN"
    /\ Len(Val(snap[p]).items) >= 2
    /\ MaxBatch(Val(snap[p]).items) = 2
    /\ \A i \in DOMAIN Val(snap[p]).items : Val(snap[p]).items[i].status = "ACTIVE"
    /\ orders[call[p].orderId].status = "CONFIRMED"
    /\ orders[call[p].orderId].items = Val(snap[p]).items


\* ----------------------------------------------------------------------- C37
\* an order that is not PAID has no discount and its grandTotal is its subtotal
C37_NoDiscountUnpaid ==
  \A o \in DOMAIN orders :
    orders[o].status \in {"OPEN", "CONFIRMED", "CANCELLED"} =>
      /\ orders[o].discountType = Null
      /\ orders[o].discountValue = Null
      /\ orders[o].grandTotal = orders[o].subtotal

\* the discount fields of a committed order change only when a checkout
\* commits and leaves the order PAID
C37_DiscountStep ==
  \A o \in DOMAIN orders :
    (/\ o \in DOMAIN orders'
     /\ \/ orders'[o].discountType # orders[o].discountType
        \/ orders'[o].discountValue # orders[o].discountValue)
    => /\ orders[o].status = "CONFIRMED"
       /\ orders'[o].status = "PAID"
       /\ \E p \in Procs :
            /\ CommitsNow(p)
            /\ call[p].op = "checkout" /\ call[p].orderId = o

\* C37: an OPEN, CONFIRMED or CANCELLED order has neither discountType nor
\* discountValue and its grandTotal equals its subtotal; the discount fields
\* are written only by the checkout that makes the order PAID
C37_DiscountOnlyPaid == []C37_NoDiscountUnpaid /\ [][C37_DiscountStep]_vars

\* a checkout refused under the lock for its discount left the order CONFIRMED
\* without discount, and a later checkout made it PAID with a FIXED discount
C37_Witness ==
  \E o \in DOMAIN orders, p, q \in Procs :
    /\ p # q
    /\ pc[p] = "done" /\ result[p] = "Validation"
    /\ call[p].op = "checkout" /\ call[p].orderId = o
    /\ snap[p] # Null /\ Val(snap[p]).status = "CONFIRMED"
    /\ pc[q] = "done" /\ result[q] = "Ok"
    /\ call[q].op = "checkout" /\ call[q].orderId = o
    /\ snap[q] # Null /\ Val(snap[q]).status = "CONFIRMED"
    /\ Val(snap[q]).discountType = Null /\ Val(snap[q]).discountValue = Null
    /\ orders[o].status = "PAID"
    /\ orders[o].discountType = Some("FIXED")
    /\ orders[o].discountValue # Null


\* ----------------------------------------------------------------------- C38
\* the discount amount of a committed order, from its stored fields
DiscountOf(order) ==
  calculateDiscount(order.subtotal, order.discountType, order.discountValue)

\* C38: every PAID order has an ACTIVE item, and its grandTotal is its subtotal
\* minus the discount amount exactly: the discount never exceeds the subtotal,
\* so the floor at zero never decides the grandTotal of a PAID order
C38_PaidTotals ==
  \A o \in DOMAIN orders :
    orders[o].status = "PAID" =>
      /\ ~NoActive(orders[o].items)
      /\ orders[o].subtotal = ActiveTotal(orders[o].items)
      /\ DiscountOf(orders[o]) <= orders[o].subtotal
      /\ orders[o].grandTotal = orders[o].subtotal - DiscountOf(orders[o])

\* an order of two items, one VOIDED, was PAID with a discount
C38_Witness ==
  \E o \in DOMAIN orders :
    /\ orders[o].status = "PAID"
    /\ Len(orders[o].items) = 2
    /\ \E i \in DOMAIN orders[o].items : orders[o].items[i].status = "VOIDED"
    /\ orders[o].discountType # Null
    /\ DiscountOf(orders[o]) > 0
    /\ orders[o].grandTotal < orders[o].subtotal


\* ----------------------------------------------------------------------- C39
\* the ids of the list, each once
DistinctIds(orderIds) == {orderIds[i] : i \in DOMAIN orderIds}

\* the SELECT of p returned and withMultipleOrderLock goes on: NotFound naming
\* a missing id iff an id of the list has no order, else fn is called with one
\* snapshot per distinct order, by ascending id
C39_Returns(p) ==
  LET ids == DistinctIds(call[p].orderIds)
      missing == ids \ DOMAIN orders
      rows == AscendingSeq(ids)
  IN /\ result'[p] = "NotFound" <=> missing # {}
     /\ missing # {} =>
          /\ pc'[p] = "done"
          /\ call'[p].missingId # Null
          /\ Val(call'[p].missingId) \in missing
     /\ missing = {} =>
          /\ pc'[p] = "fn"
          /\ snap'[p] = Some([k \in DOMAIN rows |-> RowOf(orders[rows[k]])])

C39_ReturnStep ==
  \A p \in MultiProcs :
    (pc[p] = "mlock" /\ pc'[p] # "mlock") => C39_Returns(p)

\* C39: withMultipleOrderLock with a non-empty list fails with NotFound iff an
\* id of the list has no order, and then names an id that has none; when every
\* id has an order, a repeated id included, fn is called with one locked
\* snapshot per distinct order, in ascending id order
C39_MultiNotFound == [][C39_ReturnStep]_vars

\* the same for the lists that repeat no id
C39_NoRepeatStep ==
  \A p \in MultiProcs :
    (/\ pc[p] = "mlock" /\ pc'[p] # "mlock"
     /\ Cardinality(DistinctIds(call[p].orderIds)) = Len(call[p].orderIds))
    => C39_Returns(p)

C39_NoRepeatedId == [][C39_NoRepeatStep]_vars

\* a call with a list that repeats the id of an order that exists was answered
\* NotFound with no id named, while it held the lock of that order's row
C39_RepeatedIdNotFound ==
  \E p \in MultiProcs :
    /\ pc[p] = "done" /\ result[p] = "NotFound"
    /\ call[p].missingId = Null


\* ----------------------------------------------------------------------- C40
\* p is answered the error without a write
FailsWith(p, error) ==
  /\ pc'[p] = "done" /\ result'[p] = error
  /\ orders' = orders

\* the checks of fn on an item, in their order: the status of the order, the
\* item id, the status of the item
ItemChecks(p, op, itemId) ==
  LET order == Val(snap[p])
      hits == {k \in DOMAIN order.items : order.items[k].id = itemId}
  IN IF ~Ticked(op, order.status) THEN FailsWith(p, "InvalidState")
     ELSE IF hits = {} THEN FailsWith(p, "NotFound")
     ELSE IF \E k \in hits : order.items[k].status = "VOIDED"
       THEN FailsWith(p, "InvalidState")
     ELSE pc'[p] = "update"

C40_ChecksStep ==
  \A p \in Procs :
    \* the order is looked up before fn is called
    /\ (pc[p] = "wait" /\ pc'[p] # "wait" /\ ~Exists(call[p].orderId)
        /\ withOrderLock(p))
       => FailsWith(p, "NotFound") /\ snap'[p] = Null
    /\ (pc[p] = "fn" /\ pc'[p] # "fn" /\ call[p].op = "void") =>
         \A i \in VoidInputs :
           voidOrderItemFn(p, i) => ItemChecks(p, "void", i.itemId)
    /\ (pc[p] = "fn" /\ pc'[p] # "fn" /\ call[p].op = "updateQuantity") =>
         \A q \in QuantityInputs :
           updateItemQuantityFn(p, q) => ItemChecks(p, "updateQuantity", q.itemId)
    \* the status of the order is checked before its items are counted
    /\ (pc[p] = "fn" /\ pc'[p] # "fn" /\ call[p].op = "checkout") =>
         \A d \in CheckoutInputs :
           checkoutOrderFn(p, d) =>
             IF Val(snap[p]).status # "CONFIRMED" THEN FailsWith(p, "InvalidState")
             ELSE NoActive(Val(snap[p]).items) => FailsWith(p, "Validation")

\* a request answered by the checks made before the lock: on an order that
\* does not exist it fails with NotFound, on an order in a status not ticked
\* for the operation with InvalidState
C40_RequestStep ==
  \A p \in Procs, o \in OrderIds, op \in {"void", "updateQuantity", "checkout"} :
    AnsweredBeforeLock(p, op, o) =>
      IF ~Exists(o) THEN result'[p] = "NotFound"
      ELSE ~Ticked(op, orders[o].status) => result'[p] = "InvalidState"

\* C40 as written: the errors of the locked operations come in the order
\* NotFound for a missing order, InvalidState for the status of the order,
\* NotFound for the item id, InvalidState for a VOIDED item, whatever the
\* request
C40_AsWritten == [][C40_ChecksStep /\ C40_RequestStep]_vars

\* C40: for a request that passes the checks made before the lock, the errors
\* of the locked operations come in the order NotFound for a missing order,
\* InvalidState for a status of the order that does not allow the operation,
\* NotFound for an item id not in the order, InvalidState for a VOIDED item;
\* a void or an update of an unknown item id on an order in such a status
\* fails with InvalidState, and so does a checkout of an order that is not
\* CONFIRMED, whether or not it has ACTIVE items
C40_Precedence == [][C40_ChecksStep]_vars

\* on a CONFIRMED order, an update-quantity was refused under the lock for the
\* status, and a void got past the status check and found no such item
C40_Witness ==
  \E p, q \in Procs :
    /\ pc[p] = "done" /\ result[p] = "InvalidState" /\ call[p].op = "updateQuantity"
    /\ snap[p] # Null /\ Val(snap[p]).status = "CONFIRMED"
    /\ pc[q] = "done" /\ result[q] = "NotFound" /\ call[q].op = "void"
    /\ snap[q] # Null /\ Val(snap[q]).status = "CONFIRMED"
    /\ Len(Val(snap[q]).items) < Cardinality(ItemIds)

====
